---------------------------- MODULE Spec2Model ----------------------------
(***************************************************************************)
(* State-machine model of the SelfMon (Honeywell Galaxy alarm) Home        *)
(* Assistant integration: the config flow with its two MQTT discovery      *)
(* sessions (custom_components/selfmon/config_flow.py), the topic          *)
(* classifier inside the sensor discovery callback, and the zone payload   *)
(* decoder (custom_components/selfmon/binary_sensor.py).                   *)
(*                                                                         *)
(* Python strings are TLA+ strings; a character is a string of length 1    *)
(* (SubSeq(s, i, i)).  Python operations on strings (startswith, replace,  *)
(* split, in, isdigit, int, lower, strip, rstrip, re.match) are operators  *)
(* computed character by character, as CPython computes them.              *)
(***************************************************************************)
EXTENDS Integers, Sequences, FiniteSets, TLC

\* ------------------------------------------------------------------------
\* Bounds of the model
\* ------------------------------------------------------------------------

\* Distinct topics published on the broker during one discovery session.
MaxMsgs == 2

\* Subscribe calls that raise during one discovery session.
MaxFail == 1

\* Longest zone id drawn for the device-class heuristic on its own.
MaxZoneLen == 2

\* Payloads delivered to one entity.
MaxPayloads == 3

\* Runs of async_will_remove_from_hass on one entity.
MaxRemovals == 2

\* Sensor discovery runs of one flow that are compared with each other.
MaxRuns == 2

\* ------------------------------------------------------------------------
\* Python str operations
\* ------------------------------------------------------------------------

Char(s, i) == SubSeq(s, i, i)

\* s.startswith(p)
StartsWith(s, p) == Len(s) >= Len(p) /\ SubSeq(s, 1, Len(p)) = p

\* s.find(p) + 1: the first position at which p occurs in s, 0 if it does not.
Find(s, p) ==
    LET hits == {i \in 1..(Len(s) - Len(p) + 1) : SubSeq(s, i, i + Len(p) - 1) = p}
    IN  IF hits = {} THEN 0 ELSE CHOOSE i \in hits : \A j \in hits : i <= j

\* p in s
Contains(s, p) == Find(s, p) # 0

\* s.replace(old, new, 1): only the first occurrence, wherever it is.
ReplaceFirst(s, old, new) ==
    LET i == Find(s, old)
    IN  IF i = 0 THEN s
        ELSE SubSeq(s, 1, i - 1) \o new \o SubSeq(s, i + Len(old), Len(s))

\* s.split(sep) for a one-character sep, as a sequence of strings.
RECURSIVE SplitFrom(_, _, _, _)
SplitFrom(s, sep, start, i) ==
    IF i > Len(s) THEN <<SubSeq(s, start, Len(s))>>
    ELSE IF Char(s, i) = sep
         THEN <<SubSeq(s, start, i - 1)>> \o SplitFrom(s, sep, i + 1, i + 1)
         ELSE SplitFrom(s, sep, start, i + 1)

Split(s, sep) == SplitFrom(s, sep, 1, 1)

\* s.split("/")[-1]
LastSegment(s) == LET parts == Split(s, "/") IN parts[Len(parts)]

\* Characters by class.  U+00B2 SUPERSCRIPT TWO is a digit for str.isdigit()
\* (Numeric_Type=Digit) but not a decimal digit (category No), so int()
\* rejects it.
DecimalDigits == {"0", "1", "2", "3", "4", "5", "6", "7", "8", "9"}
OtherDigits == {"²"}
HexDigits == DecimalDigits \cup {"a", "b", "c", "d", "e", "f"}
                           \cup {"A", "B", "C", "D", "E", "F"}
Whitespace == {" ", "\t", "\n", "\r"}

\* s.isdigit(): non-empty, every character has the Unicode digit property.
IsDigit(s) ==
    Len(s) > 0 /\ \A i \in 1..Len(s) : Char(s, i) \in DecimalDigits \cup OtherDigits

DigitValue(c) ==
    CASE c = "0" -> 0 [] c = "1" -> 1 [] c = "2" -> 2 [] c = "3" -> 3
      [] c = "4" -> 4 [] c = "5" -> 5 [] c = "6" -> 6 [] c = "7" -> 7
      [] c = "8" -> 8 [] c = "9" -> 9

\* int(s) for a string that passed isdigit(): int() raises ValueError on a
\* digit that is not a decimal digit, and otherwise returns the decimal value.
IntRaises(s) == \E i \in 1..Len(s) : Char(s, i) \notin DecimalDigits

RECURSIVE IntOf(_, _)
IntOf(s, n) ==
    IF n = 0 THEN 0 ELSE 10 * IntOf(s, n - 1) + DigitValue(Char(s, n))

\* c.lower() on the characters of the model's alphabet.
LowerChar(c) ==
    CASE c = "A" -> "a" [] c = "B" -> "b" [] c = "C" -> "c" [] c = "D" -> "d"
      [] c = "E" -> "e" [] c = "F" -> "f" [] c = "L" -> "l" [] c = "I" -> "i"
      [] c = "N" -> "n" [] OTHER -> c

RECURSIVE Lower(_)
Lower(s) == IF Len(s) = 0 THEN "" ELSE LowerChar(Char(s, 1)) \o Lower(SubSeq(s, 2, Len(s)))

\* s.strip()
RECURSIVE LStrip(_)
LStrip(s) ==
    IF Len(s) > 0 /\ Char(s, 1) \in Whitespace THEN LStrip(SubSeq(s, 2, Len(s))) ELSE s

RECURSIVE RStripChars(_, _)
RStripChars(s, chars) ==
    IF Len(s) > 0 /\ Char(s, Len(s)) \in chars
    THEN RStripChars(SubSeq(s, 1, Len(s) - 1), chars)
    ELSE s

Strip(s) == RStripChars(LStrip(s), Whitespace)

\* s.rstrip("/")
RStripSlash(s) == RStripChars(s, {"/"})

\* Code-point order of the characters the model uses, for sorted().
Alphabet == "\t\n\r +./0123456789ABCDEFILN_abcdefghiklmnoprstuvxyz²"

Ord(c) == Find(Alphabet, c)

\* a < b for strings: a is a proper prefix of b, or the first character in
\* which they differ is the smaller one in a.
StrLess(a, b) ==
    \E i \in 0..Len(a) :
        /\ i <= Len(b)
        /\ SubSeq(a, 1, i) = SubSeq(b, 1, i)
        /\ IF i = Len(a) THEN i < Len(b)
           ELSE i < Len(b) /\ Ord(Char(a, i + 1)) < Ord(Char(b, i + 1))

\* sorted(S) for a set of strings: the element at position i is the one with
\* i - 1 elements of S before it.
Sorted(S) ==
    [i \in 1..Cardinality(S) |->
        CHOOSE x \in S : Cardinality({y \in S : StrLess(y, x)}) = i - 1]

Range(seq) == {seq[i] : i \in 1..Len(seq)}

\* ------------------------------------------------------------------------
\* const.py
\* ------------------------------------------------------------------------

SENSOR_TYPE_ZONE_INPUT == "zone_input"
SENSOR_TYPE_OUTPUT == "output"
SENSOR_TYPE_TEMPERATURE == "temperature"
SENSOR_TYPE_VKP_LINE == "vkp_line"
SENSOR_TYPE_VERSION == "version"

TOPIC_PRIO_INPUTS == "prio/inputs/read"
TOPIC_VRIO_INPUTS == "vrio/inputs/read"
TOPIC_PRIO_OUTPUTS == "prio/outputs"
TOPIC_VRIO_OUTPUTS == "vrio/outputs"
TOPIC_TEMPERATURE == "temperature"
TOPIC_VKP_LINE1 == "vkp/display/line1"
TOPIC_VKP_LINE2 == "vkp/display/line2"
TOPIC_VERSION == "version"

PAYLOAD_OPEN == "OPEN"
PAYLOAD_CLOSED == "CLOSED"
PAYLOAD_ON == "ON"
PAYLOAD_OFF == "OFF"

DEVICE_CLASS_OPTIONS ==
    << "door", "motion", "smoke", "safety", "window", "garage_door", "vibration",
       "tamper", "problem", "None" >>

\* Discovery timeouts in seconds.
DISCOVERY_TIMEOUT == 10
MODULE_DISCOVERY_TIMEOUT == 8

\* ------------------------------------------------------------------------
\* config_flow.py: pure helpers
\* ------------------------------------------------------------------------

\* What a raised exception leaves in place of a value.
ValueError == "ValueError"

\* get_default_device_class(zone_id, topic); topic is not read.
get_default_device_class(zone_id) ==
    IF IsDigit(zone_id) /\ IntRaises(zone_id) THEN ValueError
    ELSE LET zone_num == IF IsDigit(zone_id) THEN IntOf(zone_id, Len(zone_id)) ELSE 0
             last_digit == zone_num % 10
         IN  IF last_digit \in {1, 7} THEN "door"
             ELSE IF last_digit \in {2, 8} THEN "motion"
             ELSE IF last_digit \in {4, 6} THEN "smoke"
             ELSE IF last_digit \in {3, 5} THEN "safety"
             ELSE "None"

\* Variant: every keypad line is named "Keypad Line 1".
get_default_sensor_name_line1(sensor_type, sensor_id) ==
    IF sensor_type = SENSOR_TYPE_ZONE_INPUT THEN "Alarm - Zone " \o sensor_id
    ELSE IF sensor_type = SENSOR_TYPE_OUTPUT THEN "Alarm - Output " \o sensor_id
    ELSE IF sensor_type = SENSOR_TYPE_TEMPERATURE THEN "Temperature Sensor"
    ELSE IF sensor_type = SENSOR_TYPE_VKP_LINE THEN "Keypad Line 1"
    ELSE IF sensor_type = SENSOR_TYPE_VERSION THEN "Module Version"
    ELSE "Sensor " \o sensor_id

get_default_sensor_name(sensor_type, sensor_id) ==
    IF sensor_type = SENSOR_TYPE_ZONE_INPUT THEN "Alarm - Zone " \o sensor_id
    ELSE IF sensor_type = SENSOR_TYPE_OUTPUT THEN "Alarm - Output " \o sensor_id
    ELSE IF sensor_type = SENSOR_TYPE_TEMPERATURE THEN "Temperature Sensor"
    ELSE IF sensor_type = SENSOR_TYPE_VKP_LINE
         THEN IF Contains(Lower(sensor_id), "line1") THEN "Keypad Line 1"
              ELSE "Keypad Line 2"
    ELSE IF sensor_type = SENSOR_TYPE_VERSION THEN "Module Version"
    ELSE "Sensor " \o sensor_id

\* re.match(r"(selfmon/vmod\.[a-fA-F0-9]+)", topic).group(1), or "" when the
\* pattern does not match at the start of the topic.
MODULE_PREFIX == "selfmon/vmod."

RECURSIVE HexRun(_, _)
HexRun(s, i) ==
    IF i <= Len(s) /\ Char(s, i) \in HexDigits THEN 1 + HexRun(s, i + 1) ELSE 0

ModuleMatch(topic) ==
    LET run == HexRun(topic, Len(MODULE_PREFIX) + 1)
    IN  IF StartsWith(topic, MODULE_PREFIX) /\ run >= 1
        THEN SubSeq(topic, 1, Len(MODULE_PREFIX) + run)
        ELSE ""

\* re.match(r"^selfmon/vmod\.[a-fA-F0-9]+$", module_path): "$" matches at the
\* end of the string and also just before a newline that ends the string.
ValidModulePath(path) ==
    LET run == HexRun(path, Len(MODULE_PREFIX) + 1)
        stop == Len(MODULE_PREFIX) + run
    IN  /\ StartsWith(path, MODULE_PREFIX)
        /\ run >= 1
        /\ \/ stop = Len(path)
           \/ stop = Len(path) - 1 /\ Char(path, Len(path)) = "\n"

\* ------------------------------------------------------------------------
\* The MQTT client of the host: a subscription receives the messages whose
\* topic matches its filter ("+" one whole level, "#" the rest, the parent
\* level included).
\* ------------------------------------------------------------------------

RECURSIVE LevelsMatch(_, _)
LevelsMatch(f, t) ==
    IF Len(f) = 0 THEN Len(t) = 0
    ELSE IF Head(f) = "#" THEN TRUE
    ELSE IF Len(t) = 0 THEN FALSE
    ELSE (Head(f) = "+" \/ Head(f) = Head(t)) /\ LevelsMatch(Tail(f), Tail(t))

Matches(filter, topic) == LevelsMatch(Split(filter, "/"), Split(topic, "/"))

\* ------------------------------------------------------------------------
\* config_flow.py: SelfMonConfigFlow.async_step_user, module discovery
\* ------------------------------------------------------------------------

subscribe_patterns ==
    << "selfmon/vmod.+/temperature",
       "selfmon/vmod.+/version",
       "selfmon/vmod.+/heartbeat",
       "selfmon/vmod.+/vkp/display/#",
       "selfmon/vmod.+/prio/#",
       "selfmon/vmod.+/vrio/#",
       "selfmon/#" >>

\* module_discovered(msg) on the set of modules found so far.
module_discovered(modules, topic) ==
    IF ModuleMatch(topic) # "" THEN modules \cup {ModuleMatch(topic)} ELSE modules

\* ------------------------------------------------------------------------
\* config_flow.py: SelfMonConfigFlow.async_step_discover, sensor discovery
\* ------------------------------------------------------------------------

\* Variant: the output filters are subscribed whatever the user chose.
topics_to_subscribe_always_outputs(path, outputs) ==
    << path \o "/" \o TOPIC_PRIO_INPUTS \o "/#",
       path \o "/" \o TOPIC_VRIO_INPUTS \o "/#",
       path \o "/" \o TOPIC_TEMPERATURE,
       path \o "/" \o TOPIC_VKP_LINE1,
       path \o "/" \o TOPIC_VKP_LINE2,
       path \o "/" \o TOPIC_VERSION,
       path \o "/" \o TOPIC_PRIO_OUTPUTS \o "/#",
       path \o "/" \o TOPIC_VRIO_OUTPUTS \o "/#" >>

\* Variant: a catch-all filter is subscribed too, as module discovery does.
topics_to_subscribe_catch_all(path, outputs) ==
    << path \o "/" \o TOPIC_PRIO_INPUTS \o "/#",
       path \o "/" \o TOPIC_VRIO_INPUTS \o "/#",
       path \o "/" \o TOPIC_TEMPERATURE,
       path \o "/" \o TOPIC_VKP_LINE1,
       path \o "/" \o TOPIC_VKP_LINE2,
       path \o "/" \o TOPIC_VERSION,
       "#" >>
    \o (IF outputs
        THEN << path \o "/" \o TOPIC_PRIO_OUTPUTS \o "/#",
                path \o "/" \o TOPIC_VRIO_OUTPUTS \o "/#" >>
        ELSE <<>>)

topics_to_subscribe(path, outputs) ==
    << path \o "/" \o TOPIC_PRIO_INPUTS \o "/#",
       path \o "/" \o TOPIC_VRIO_INPUTS \o "/#",
       path \o "/" \o TOPIC_TEMPERATURE,
       path \o "/" \o TOPIC_VKP_LINE1,
       path \o "/" \o TOPIC_VKP_LINE2,
       path \o "/" \o TOPIC_VERSION >>
    \o (IF outputs
        THEN << path \o "/" \o TOPIC_PRIO_OUTPUTS \o "/#",
                path \o "/" \o TOPIC_VRIO_OUTPUTS \o "/#" >>
        ELSE <<>>)

\* relative_topic = topic.replace(f"{self._module_path}/", "", 1)
RelativeTopic(path, topic) == ReplaceFirst(topic, path \o "/", "")

IsZoneTopic(relative) ==
    StartsWith(relative, TOPIC_PRIO_INPUTS) \/ StartsWith(relative, TOPIC_VRIO_INPUTS)

IsOutputTopic(relative) ==
    StartsWith(relative, TOPIC_PRIO_OUTPUTS) \/ StartsWith(relative, TOPIC_VRIO_OUTPUTS)

\* line_id = "line1" if "line1" in relative_topic else "line2"
LineId(relative) == IF Contains(relative, "line1") THEN "line1" ELSE "line2"

\* Variant: outputs are enabled without asking.
AutoEnabled_outputs(sensor_type) ==
    sensor_type \in {SENSOR_TYPE_OUTPUT, SENSOR_TYPE_TEMPERATURE,
                     SENSOR_TYPE_VKP_LINE, SENSOR_TYPE_VERSION}

\* The "auto_enabled" literal of each branch of message_received.
AutoEnabled(sensor_type) ==
    sensor_type \in {SENSOR_TYPE_TEMPERATURE, SENSOR_TYPE_VKP_LINE, SENSOR_TYPE_VERSION}

\* message_received raises (int() inside get_default_device_class) and
\* stores nothing.
Raises(path, topic) ==
    LET relative == RelativeTopic(path, topic)
    IN  IsZoneTopic(relative)
        /\ get_default_device_class(LastSegment(relative)) = ValueError

\* The descriptor message_received stores under the topic: a sequence of one
\* descriptor, or the empty sequence when no branch is taken.
Classify(path, topic) ==
    LET relative == RelativeTopic(path, topic)
    IN  IF IsZoneTopic(relative)
        THEN LET zone_id == LastSegment(relative)
             IN  << [ sensor_type |-> SENSOR_TYPE_ZONE_INPUT,
                      zone_id |-> zone_id,
                      name |-> get_default_sensor_name(SENSOR_TYPE_ZONE_INPUT, zone_id),
                      device_class |-> get_default_device_class(zone_id),
                      enabled |-> TRUE,
                      topic |-> topic,
                      is_prio |-> Contains(relative, TOPIC_PRIO_INPUTS),
                      auto_enabled |-> AutoEnabled(SENSOR_TYPE_ZONE_INPUT) ] >>
        ELSE IF IsOutputTopic(relative)
        THEN LET output_id == LastSegment(relative)
             IN  << [ sensor_type |-> SENSOR_TYPE_OUTPUT,
                      zone_id |-> output_id,
                      name |-> get_default_sensor_name(SENSOR_TYPE_OUTPUT, output_id),
                      device_class |-> "None",
                      enabled |-> TRUE,
                      topic |-> topic,
                      is_prio |-> Contains(relative, TOPIC_PRIO_OUTPUTS),
                      auto_enabled |-> AutoEnabled(SENSOR_TYPE_OUTPUT) ] >>
        ELSE IF relative = TOPIC_TEMPERATURE
        THEN << [ sensor_type |-> SENSOR_TYPE_TEMPERATURE,
                  zone_id |-> "temperature",
                  name |-> get_default_sensor_name(SENSOR_TYPE_TEMPERATURE, ""),
                  device_class |-> "temperature",
                  enabled |-> TRUE,
                  topic |-> topic,
                  auto_enabled |-> AutoEnabled(SENSOR_TYPE_TEMPERATURE) ] >>
        ELSE IF relative \in {TOPIC_VKP_LINE1, TOPIC_VKP_LINE2}
        THEN << [ sensor_type |-> SENSOR_TYPE_VKP_LINE,
                  zone_id |-> LineId(relative),
                  name |-> get_default_sensor_name(SENSOR_TYPE_VKP_LINE, LineId(relative)),
                  device_class |-> "None",
                  enabled |-> TRUE,
                  topic |-> topic,
                  auto_enabled |-> AutoEnabled(SENSOR_TYPE_VKP_LINE) ] >>
        ELSE IF relative = TOPIC_VERSION
        THEN << [ sensor_type |-> SENSOR_TYPE_VERSION,
                  zone_id |-> "version",
                  name |-> get_default_sensor_name(SENSOR_TYPE_VERSION, ""),
                  device_class |-> "None",
                  enabled |-> TRUE,
                  topic |-> topic,
                  auto_enabled |-> AutoEnabled(SENSOR_TYPE_VERSION) ] >>
        ELSE <<>>

\* ------------------------------------------------------------------------
\* The environment: topics the broker may carry, and what the user may type
\* ------------------------------------------------------------------------

Topics ==
    { "selfmon/vmod.a1/prio/inputs/read/7",
      "selfmon/vmod.a1/vrio/inputs/read/12",
      "selfmon/vmod.a1/prio/inputs/read/²",
      "selfmon/vmod.a1/prio/inputs/read",
      "selfmon/vmod.a1/prio/inputs/readx/5",
      "selfmon/vmod.a1/vrio/inputs/read/prio/inputs/read/5",
      "selfmon/vmod.a1/prio/outputs/3",
      "selfmon/vmod.a1/vrio/outputs/3",
      "selfmon/vmod.a1/temperature",
      "selfmon/vmod.a1/vkp/display/line1",
      "selfmon/vmod.a1/vkp/display/line2",
      "selfmon/vmod.a1/version",
      "selfmon/vmod.b2/temperature",
      "selfmon/vmod.a1x/version",
      "prio/inputs/read/selfmon/vmod.a1/5",
      "temperature",
      "other/module/topic" }

\* The topics published while the whole config flow is explored.
FlowTopics ==
    { "selfmon/vmod.a1/prio/inputs/read/7",
      "selfmon/vmod.a1/vrio/inputs/read/12",
      "selfmon/vmod.a1/prio/outputs/3",
      "selfmon/vmod.a1/temperature",
      "selfmon/vmod.b2/temperature",
      "selfmon/vmod.a1x/version",
      "other/module/topic" }

ManualInputs ==
    { " selfmon/vmod.a1/ ",
      "selfmon/vmod.zz",
      "vmod.a1" }

\* Every module path the flow can hold, and every filter it can subscribe.
ModulePaths ==
    ({ModuleMatch(t) : t \in Topics} \ {""})
    \cup {RStripSlash(Strip(typed)) : typed \in ManualInputs}

Filters ==
    Range(subscribe_patterns)
    \cup UNION {Range(topics_to_subscribe(p, o)) : p \in ModulePaths, o \in BOOLEAN}

\* Matches and message_received, tabulated over the topics of the model.
MatchTable == [f \in Filters |-> [t \in Topics |-> Matches(f, t)]]

ReceivedTable ==
    [p \in ModulePaths |->
        [t \in Topics |-> [raises |-> Raises(p, t), stored |-> Classify(p, t)]]]

\* Variant: a descriptor that is stored replaces the map, so that the result
\* is the descriptor of the topic handled last.
message_received_last_only(sensors, path, topic) ==
    LET r == ReceivedTable[path][topic]
    IN  IF r.raises \/ r.stored = <<>> THEN sensors
        ELSE [t \in {topic} |-> r.stored[1]]

\* message_received(msg) on the map self._discovered_sensors: a message whose
\* handling raises, or takes no branch, stores nothing.
message_received(sensors, path, topic) ==
    LET r == ReceivedTable[path][topic]
    IN  IF r.raises \/ r.stored = <<>> THEN sensors
        ELSE [t \in DOMAIN sensors \cup {topic} |->
                IF t = topic THEN r.stored[1] ELSE sensors[t]]

\* ------------------------------------------------------------------------
\* State
\* ------------------------------------------------------------------------

VARIABLES
    pc,                    \* where the config flow is: a running step or a shown form
    module_path,           \* self._module_path
    discovered_modules,    \* self._discovered_modules
    discovered_sensors,    \* self._discovered_sensors
    current_sensor_index,  \* self._current_sensor_index
    sensor_keys,           \* self._sensor_keys
    enable_outputs,        \* self._enable_outputs
    errors,                \* errors["base"] of the form shown, "" when none
    entry,                 \* data of the created config entry, as a sequence of 0 or 1
    unsubscribes,          \* the running session's list of unsubscribe handles
    pattern_idx,           \* position of the running session's subscribe loop
    subs,                  \* subscriptions active in the MQTT client
    published,             \* topics published during the running session
    delivered,             \* topics handed to a session callback
    redelivered,           \* a session callback has been given a topic it had been
                           \* given before in the running session
    nfail,                 \* subscribe calls that raised in the running session
    elapsed,               \* seconds the running session has spent in asyncio.sleep
    runs,                  \* the sensor discovery runs entered since the module was
                           \* last chosen: what each was entered with and returned
    presented,             \* the per-sensor forms of the config flow submitted since
                           \* sensor discovery was last entered: key and enabled value
    o_pc,                  \* where the options flow is: "none" when there is none
    o_sensor_keys,         \* SelfMonOptionsFlow._sensor_keys
    o_current_sensor_index,\* SelfMonOptionsFlow._current_sensor_index
    o_opened_with,         \* the entry data when the options flow in progress was
                           \* opened, as a sequence of 0 or 1
    dc_zone,               \* zone id given to get_default_device_class
    dc_result,             \* what it returned
    z_life,                \* the zone entity: "created", "added", "add_failed", "removed"
    z_is_on,               \* SelfMonZoneSensor._attr_is_on: "None", "True" or "False"
    z_ha_state,            \* the state last written by async_write_ha_state
    z_writes,              \* calls of async_write_ha_state
    z_payloads,            \* payloads delivered to the zone entity, in order
    z_unsubscribe,         \* whether the zone entity has its _unsubscribe attribute
    z_subscribed,          \* whether the zone entity's subscription is active
    z_unsub_calls,         \* calls of the zone entity's unsubscribe handle
    z_removals,            \* runs of the zone entity's async_will_remove_from_hass
    s_kind,                \* the sensor.py entity: the sensor type it was built for
    s_life,                \* as z_life
    s_value,               \* _attr_native_value
    s_ha_state,            \* the state last written by async_write_ha_state
    s_writes,              \* calls of async_write_ha_state
    s_payloads,            \* payloads delivered to the entity, in order
    s_unsubscribe,         \* whether the entity has its _unsubscribe attribute
    s_subscribed,          \* whether the entity's subscription is active
    s_unsub_calls,         \* calls of the entity's unsubscribe handle
    s_removals,            \* runs of the entity's async_will_remove_from_hass
    hass_data,             \* hass.data[DOMAIN][entry_id], as a sequence of 0 or 1
    platforms,             \* the platforms whose async_setup_entry has run
    entities               \* the entities handed to async_add_entities

flowVars ==
    << pc, module_path, discovered_modules, discovered_sensors, current_sensor_index,
       sensor_keys, enable_outputs, errors, entry, unsubscribes, pattern_idx, subs,
       published, delivered, redelivered, nfail, elapsed, runs, presented >>

optVars == << o_pc, o_sensor_keys, o_current_sensor_index, o_opened_with >>

dcVars == << dc_zone, dc_result >>

zoneVars ==
    << z_life, z_is_on, z_ha_state, z_writes, z_payloads, z_unsubscribe, z_subscribed,
       z_unsub_calls, z_removals >>

sensorVars ==
    << s_kind, s_life, s_value, s_ha_state, s_writes, s_payloads, s_unsubscribe,
       s_subscribed, s_unsub_calls, s_removals >>

setupVars == << hass_data, platforms, entities >>

vars == << flowVars, optVars, dcVars, zoneVars, sensorVars, setupVars >>

\* Python's None, and a value not yet computed.
None == "None"
Unset == "<unset>"

EmptyMap == [t \in {} |-> TRUE]

\* SelfMonConfigFlow.__init__
FlowInit ==
    /\ pc = "start"
    /\ module_path = ""
    /\ discovered_modules = {}
    /\ discovered_sensors = EmptyMap
    /\ current_sensor_index = 0
    /\ sensor_keys = <<>>
    /\ enable_outputs = FALSE
    /\ errors = ""
    /\ entry = <<>>
    /\ unsubscribes = <<>>
    /\ pattern_idx = 0
    /\ subs = {}
    /\ published = {}
    /\ delivered = {}
    /\ redelivered = FALSE
    /\ nfail = 0
    /\ elapsed = 0
    /\ runs = <<>>
    /\ presented = <<>>

\* No options flow has been opened.
OptionsIdle ==
    /\ o_pc = "none"
    /\ o_sensor_keys = <<>>
    /\ o_current_sensor_index = 0
    /\ o_opened_with = <<>>

DcIdle == dc_zone = "" /\ dc_result = Unset

\* The integration has not been set up for an entry.
SetupIdle ==
    /\ hass_data = <<>>
    /\ platforms = {}
    /\ entities = {}

\* SelfMonZoneSensor.__init__
ZoneInit ==
    /\ z_life = "created"
    /\ z_is_on = None
    /\ z_ha_state = Unset
    /\ z_writes = 0
    /\ z_payloads = <<>>
    /\ z_unsubscribe = FALSE
    /\ z_subscribed = FALSE
    /\ z_unsub_calls = 0
    /\ z_removals = 0

\* _attr_native_value of a sensor.py entity: None, a str payload, or a float
\* (m * 10^e with m not divisible by 10; text names inf, -inf and nan).
NoValue == [kind |-> "None", text |-> "", m |-> 0, e |-> 0]
StrValue(payload) == [kind |-> "str", text |-> payload, m |-> 0, e |-> 0]
FloatValue(m, e) == [kind |-> "float", text |-> "", m |-> m, e |-> e]
SpecialFloat(name) == [kind |-> "float", text |-> name, m |-> 0, e |-> 0]
NoState == [kind |-> "<unset>", text |-> "", m |-> 0, e |-> 0]

\* SelfMonBaseSensor.__init__, for the entity class of the given sensor type.
SensorInit(kind) ==
    /\ s_kind = kind
    /\ s_life = "created"
    /\ s_value = NoValue
    /\ s_ha_state = NoState
    /\ s_writes = 0
    /\ s_payloads = <<>>
    /\ s_unsubscribe = FALSE
    /\ s_subscribed = FALSE
    /\ s_unsub_calls = 0
    /\ s_removals = 0

Init ==
    /\ FlowInit
    /\ OptionsIdle
    /\ SetupIdle
    /\ DcIdle
    /\ ZoneInit
    /\ SensorInit(SENSOR_TYPE_TEMPERATURE)

\* ------------------------------------------------------------------------
\* Config flow steps
\* ------------------------------------------------------------------------

SessionRunning ==
    pc \in {"user_subscribing", "user_sleeping", "discover_subscribing", "discover_sleeping"}

Sleeping == pc \in {"user_sleeping", "discover_sleeping"}

\* The argument of the asyncio.sleep the session is in.
Timeout ==
    IF pc \in {"user_subscribing", "user_sleeping"} THEN MODULE_DISCOVERY_TIMEOUT
    ELSE DISCOVERY_TIMEOUT

\* Variant: the sleep is cut short once a message has been handled.
SleepReturns_on_first_message(seconds) ==
    elapsed = seconds \/ delivered # {}

\* await asyncio.sleep(seconds) returns when that many seconds have passed.
SleepReturns(seconds) == elapsed = seconds

\* A subscription: the callback it was made with and its topic filter.
Sub(cb, filter) == [cb |-> cb, filter |-> filter]

\* Entering a discovery session: its local list and the session's history.
SessionStart ==
    /\ unsubscribes' = <<>>
    /\ pattern_idx' = 1
    /\ published' = {}
    /\ delivered' = {}
    /\ redelivered' = FALSE
    /\ nfail' = 0
    /\ elapsed' = 0

\* Variant: the step goes on into sensor discovery without the outputs form.
UniqueIdThenOutputConfig_skips_outputs ==
    \E configured \in BOOLEAN :
        pc' = IF configured THEN "abort" ELSE "discover_subscribing"

\* self._abort_if_unique_id_configured() raises when the host already holds
\* an entry for the module; otherwise async_step_output_config() shows its form.
UniqueIdThenOutputConfig ==
    \E configured \in BOOLEAN :
        pc' = IF configured THEN "abort" ELSE "form_output_config"

\* async_step_user up to its first subscribe.
UserStart ==
    /\ pc = "start"
    /\ \E mqtt_available \in BOOLEAN :
        IF mqtt_available
        THEN /\ pc' = "user_subscribing"
             /\ discovered_modules' = {}
             /\ SessionStart
        ELSE /\ pc' = "abort"
             /\ UNCHANGED << discovered_modules, unsubscribes, pattern_idx, published,
                             delivered, redelivered, nfail, elapsed >>
    /\ UNCHANGED << module_path, discovered_sensors, current_sensor_index, sensor_keys,
                    enable_outputs, errors, entry, subs, runs, presented >>

\* One pass of the subscribe loop of async_step_user: the subscribe succeeds.
UserSubscribe ==
    /\ pc = "user_subscribing"
    /\ LET h == Sub("module_discovered", subscribe_patterns[pattern_idx])
       IN  /\ subs' = subs \cup {h}
           /\ unsubscribes' = Append(unsubscribes, h)
    /\ pattern_idx' = pattern_idx + 1
    /\ pc' = IF pattern_idx = Len(subscribe_patterns) THEN "user_sleeping" ELSE pc
    /\ UNCHANGED << module_path, discovered_modules, discovered_sensors,
                    current_sensor_index, sensor_keys, enable_outputs, errors, entry,
                    published, delivered, redelivered, nfail, elapsed, runs, presented >>

\* Variant: a subscribe that raises ends the step.
UserSubscribeRaises_aborts ==
    /\ pc = "user_subscribing"
    /\ nfail' = nfail + 1
    /\ pc' = "abort"
    /\ UNCHANGED << module_path, discovered_modules, discovered_sensors,
                    current_sensor_index, sensor_keys, enable_outputs, errors, entry,
                    unsubscribes, pattern_idx, subs, published, delivered, redelivered, elapsed, runs, presented >>

\* One pass of the subscribe loop of async_step_user: the subscribe raises,
\* which is logged and skipped.
UserSubscribeRaises ==
    /\ pc = "user_subscribing"
    /\ nfail' = nfail + 1
    /\ pattern_idx' = pattern_idx + 1
    /\ pc' = IF pattern_idx = Len(subscribe_patterns) THEN "user_sleeping" ELSE pc
    /\ UNCHANGED << module_path, discovered_modules, discovered_sensors,
                    current_sensor_index, sensor_keys, enable_outputs, errors, entry,
                    unsubscribes, subs, published, delivered, redelivered, elapsed, runs, presented >>

\* The same, for at most MaxFail subscribes of a session.
UserSubscribeFails == nfail < MaxFail /\ UserSubscribeRaises

\* The whole window of the sleep passes.
WindowElapses ==
    /\ Sleeping
    /\ elapsed < Timeout
    /\ elapsed' = Timeout
    /\ UNCHANGED << pc, module_path, discovered_modules, discovered_sensors,
                    current_sensor_index, sensor_keys, enable_outputs, errors, entry,
                    unsubscribes, pattern_idx, subs, published, delivered, redelivered, nfail, runs, presented >>

\* One second of the sleep passes.
Tick ==
    /\ Sleeping
    /\ elapsed < Timeout
    /\ elapsed' = elapsed + 1
    /\ UNCHANGED << pc, module_path, discovered_modules, discovered_sensors,
                    current_sensor_index, sensor_keys, enable_outputs, errors, entry,
                    unsubscribes, pattern_idx, subs, published, delivered, redelivered, nfail, runs, presented >>

\* asyncio.sleep(MODULE_DISCOVERY_TIMEOUT) returns: the rest of async_step_user.
UserTimer ==
    /\ pc = "user_sleeping"
    /\ SleepReturns(MODULE_DISCOVERY_TIMEOUT)
    /\ subs' = subs \ Range(unsubscribes)
    /\ IF discovered_modules = {}
       THEN /\ pc' = "form_manual_entry"
            /\ errors' = "no_modules_found"
            /\ UNCHANGED module_path
       ELSE IF Cardinality(discovered_modules) = 1
       THEN /\ module_path' = CHOOSE m \in discovered_modules : TRUE
            /\ UniqueIdThenOutputConfig
            /\ errors' = ""
       ELSE /\ pc' = "form_select_module"
            /\ errors' = ""
            /\ UNCHANGED module_path
    /\ UNCHANGED << discovered_modules, discovered_sensors, current_sensor_index,
                    sensor_keys, enable_outputs, entry, unsubscribes, pattern_idx,
                    published, delivered, redelivered, nfail, elapsed, runs, presented >>

\* async_step_select_module(user_input): the selector offers the modules found.
SelectModule ==
    /\ pc = "form_select_module"
    /\ \E choice \in discovered_modules : module_path' = choice
    /\ UniqueIdThenOutputConfig
    /\ errors' = ""
    /\ UNCHANGED << discovered_modules, discovered_sensors, current_sensor_index,
                    sensor_keys, enable_outputs, entry, unsubscribes, pattern_idx, subs,
                    published, delivered, redelivered, nfail, elapsed, runs, presented >>

\* async_step_manual_entry(user_input), for an input typed into its form.  The
\* path is assigned after _abort_if_unique_id_configured() has let it pass.
ManualEntryFrom(inputs) ==
    /\ pc = "form_manual_entry"
    /\ \E typed \in inputs :
        LET path == RStripSlash(Strip(typed))
        IN  IF ~ValidModulePath(path)
            THEN /\ errors' = "invalid_path"
                 /\ UNCHANGED << pc, module_path, runs >>
            ELSE \E configured \in BOOLEAN :
                   IF configured
                   THEN /\ pc' = "abort"
                        /\ UNCHANGED << module_path, errors, runs >>
                   ELSE /\ module_path' = path
                        /\ pc' = "form_output_config"
                        /\ errors' = ""
                        /\ runs' = <<>>
    /\ UNCHANGED << discovered_modules, discovered_sensors, current_sensor_index,
                    sensor_keys, enable_outputs, entry, unsubscribes, pattern_idx, subs,
                    published, delivered, redelivered, nfail, elapsed, presented >>

ManualEntry == ManualEntryFrom(ManualInputs)

\* What the history of runs holds for a run that has been entered: the map the
\* flow object held at that moment.
RunEntered ==
    [ done |-> FALSE,
      entered_with |-> discovered_sensors,
      module_path |-> "",
      enable_outputs |-> FALSE,
      delivered |-> {},
      sensors |-> EmptyMap ]

\* Variant: the step goes on with the map the flow object holds.
DiscoverEnter_keeps_map ==
    /\ UNCHANGED discovered_sensors
    /\ runs' = Append(runs, RunEntered)
    /\ presented' = <<>>
    /\ SessionStart
    /\ pc' = "discover_subscribing"

\* async_step_discover up to its first subscribe.
DiscoverEnter ==
    /\ discovered_sensors' = EmptyMap
    /\ runs' = Append(runs, RunEntered)
    /\ presented' = <<>>
    /\ SessionStart
    /\ pc' = "discover_subscribing"

\* async_step_output_config(user_input), which goes on into async_step_discover.
OutputConfig ==
    /\ pc = "form_output_config"
    /\ \E choice \in BOOLEAN : enable_outputs' = choice
    /\ DiscoverEnter
    /\ errors' = ""
    /\ UNCHANGED << module_path, discovered_modules, current_sensor_index, sensor_keys,
                    entry, subs >>

\* One pass of the subscribe loop of async_step_discover: the subscribe succeeds.
DiscoverSubscribe ==
    /\ pc = "discover_subscribing"
    /\ LET patterns == topics_to_subscribe(module_path, enable_outputs)
           h == Sub("message_received", patterns[pattern_idx])
       IN  /\ subs' = subs \cup {h}
           /\ unsubscribes' = Append(unsubscribes, h)
           /\ pc' = IF pattern_idx = Len(patterns) THEN "discover_sleeping" ELSE pc
    /\ pattern_idx' = pattern_idx + 1
    /\ UNCHANGED << module_path, discovered_modules, discovered_sensors,
                    current_sensor_index, sensor_keys, enable_outputs, errors, entry,
                    published, delivered, redelivered, nfail, elapsed, runs, presented >>

\* One pass of the subscribe loop of async_step_discover: the subscribe raises,
\* which is logged and skipped.
DiscoverSubscribeRaises ==
    /\ pc = "discover_subscribing"
    /\ nfail' = nfail + 1
    /\ pattern_idx' = pattern_idx + 1
    /\ pc' = IF pattern_idx = Len(topics_to_subscribe(module_path, enable_outputs))
             THEN "discover_sleeping" ELSE pc
    /\ UNCHANGED << module_path, discovered_modules, discovered_sensors,
                    current_sensor_index, sensor_keys, enable_outputs, errors, entry,
                    unsubscribes, subs, published, delivered, redelivered, elapsed, runs, presented >>

\* The same, for at most MaxFail subscribes of a session.
DiscoverSubscribeFails == nfail < MaxFail /\ DiscoverSubscribeRaises

\* The data handed to async_create_entry.
EntryData(sensors) ==
    [ module_path |-> module_path,
      sensors |-> sensors,
      enable_outputs |-> enable_outputs ]

\* sorted() of all the topics of the model, computed once; the sorted list of
\* a set of topics is the part of it that lies in the set.
SortedTopics == Sorted(Topics)

\* Variant: the keys of the descriptors that are not auto-enabled, in
\* descending order.
ConfigurableKeys_descending(sensors) ==
    LET keys == SelectSeq(SortedTopics,
                          LAMBDA t : t \in DOMAIN sensors /\ ~sensors[t].auto_enabled)
    IN  [i \in 1..Len(keys) |-> keys[Len(keys) + 1 - i]]

\* The keys of the descriptors that are not auto-enabled, sorted.
ConfigurableKeys(sensors) ==
    SelectSeq(SortedTopics, LAMBDA t : t \in DOMAIN sensors /\ ~sensors[t].auto_enabled)

\* What a finished run of async_step_discover is compared by: the module, the
\* outputs setting, the topics its callback was given, and the map it left.
RunRecord ==
    [ done |-> TRUE,
      entered_with |-> runs[Len(runs)].entered_with,
      module_path |-> module_path,
      enable_outputs |-> enable_outputs,
      delivered |-> delivered,
      sensors |-> discovered_sensors ]

\* Variant: a run with nothing found creates an entry without sensors.
DiscoverTimer_empty_entry ==
    /\ pc = "discover_sleeping"
    /\ SleepReturns(DISCOVERY_TIMEOUT)
    /\ subs' = subs \ Range(unsubscribes)
    /\ runs' = [runs EXCEPT ![Len(runs)] = RunRecord]
    /\ UNCHANGED presented
    /\ sensor_keys' = ConfigurableKeys(discovered_sensors)
    /\ current_sensor_index' = 0
    /\ errors' = ""
    /\ IF ConfigurableKeys(discovered_sensors) = <<>>
       THEN pc' = "create_entry" /\ entry' = <<EntryData(discovered_sensors)>>
       ELSE pc' = "form_sensor_config" /\ UNCHANGED entry
    /\ UNCHANGED << module_path, discovered_modules, discovered_sensors, enable_outputs,
                    unsubscribes, pattern_idx, published, delivered, redelivered, nfail, elapsed >>

\* The rest of async_step_discover after its sleep, with the call of
\* async_step_sensor_config() that ends it.
DiscoverReturn ==
    /\ subs' = subs \ Range(unsubscribes)
    /\ runs' = [runs EXCEPT ![Len(runs)] = RunRecord]
    /\ UNCHANGED presented
    /\ IF DOMAIN discovered_sensors = {}
       THEN /\ pc' = "form_manual_entry"
            /\ errors' = "no_sensors_found"
            /\ UNCHANGED << sensor_keys, current_sensor_index, entry >>
       ELSE /\ sensor_keys' = ConfigurableKeys(discovered_sensors)
            /\ current_sensor_index' = 0
            /\ errors' = ""
            /\ IF ConfigurableKeys(discovered_sensors) = <<>>
               THEN pc' = "create_entry" /\ entry' = <<EntryData(discovered_sensors)>>
               ELSE pc' = "form_sensor_config" /\ UNCHANGED entry
    /\ UNCHANGED << module_path, discovered_modules, discovered_sensors, enable_outputs,
                    unsubscribes, pattern_idx, published, delivered, redelivered, nfail, elapsed >>

\* Variant: the step does not come back once a callback of the session has
\* raised.
DiscoverTimer_unless_raised ==
    /\ pc = "discover_sleeping"
    /\ SleepReturns(DISCOVERY_TIMEOUT)
    /\ \A t \in delivered : ~ReceivedTable[module_path][t].raises
    /\ DiscoverReturn

\* asyncio.sleep(DISCOVERY_TIMEOUT) returns, and async_step_discover goes on.
DiscoverTimer ==
    /\ pc = "discover_sleeping"
    /\ SleepReturns(DISCOVERY_TIMEOUT)
    /\ DiscoverReturn

\* What the user may submit in a sensor_config form.  A form offers the device
\* class only for a zone input, and the host checks the input against the form.
Names == {"Front door"}

SensorInputs(sensor_type) ==
    IF sensor_type = SENSOR_TYPE_ZONE_INPUT
    THEN { [enabled |-> en, name |-> nm, has_device_class |-> TRUE, device_class |-> dc] :
             en \in BOOLEAN, nm \in Names, dc \in {DEVICE_CLASS_OPTIONS[5]} }
    ELSE { [enabled |-> en, name |-> nm, has_device_class |-> FALSE, device_class |-> ""] :
             en \in BOOLEAN, nm \in Names }

\* Variant: the submitted input replaces the descriptor's topic by its name.
ApplyInput_renames_topic(data, user_input) ==
    [data EXCEPT !.enabled = user_input.enabled,
                 !.name = user_input.name,
                 !.topic = user_input.name]

\* Variant: the device class is assigned whether the input holds one or not.
ApplyInput_always_device_class(data, user_input) ==
    [data EXCEPT !.enabled = user_input.enabled,
                 !.name = user_input.name,
                 !.device_class = user_input.device_class]

\* The three assignments a sensor_config step makes to the current descriptor.
ApplyInput(data, user_input) ==
    [data EXCEPT !.enabled = user_input.enabled,
                 !.name = user_input.name,
                 !.device_class = IF user_input.has_device_class
                                  THEN user_input.device_class ELSE @]

\* async_step_sensor_config(user_input) of the config flow.
SensorConfig ==
    /\ pc = "form_sensor_config"
    /\ LET current_key == sensor_keys[current_sensor_index + 1]
       IN  \E user_input \in SensorInputs(discovered_sensors[current_key].sensor_type) :
             LET sensors == [discovered_sensors EXCEPT
                               ![current_key] = ApplyInput(@, user_input)]
             IN  /\ discovered_sensors' = sensors
                 /\ current_sensor_index' = current_sensor_index + 1
                 /\ presented' = Append(presented, [key |-> current_key,
                                                    enabled |-> user_input.enabled])
                 /\ IF current_sensor_index + 1 >= Len(sensor_keys)
                    THEN pc' = "create_entry" /\ entry' = <<EntryData(sensors)>>
                    ELSE UNCHANGED << pc, entry >>
    /\ UNCHANGED << module_path, discovered_modules, sensor_keys, enable_outputs, errors,
                    unsubscribes, pattern_idx, subs, published, delivered, redelivered, nfail,
                    elapsed, runs >>

\* async_step_discover is entered once more on the same flow object, with the
\* module and the outputs setting it has and whatever map the last run and the
\* sensor_config steps since have left.
Rediscover ==
    /\ \/ pc = "form_sensor_config"
       \/ pc = "form_manual_entry" /\ errors = "no_sensors_found"
    /\ Len(runs) < MaxRuns
    /\ DiscoverEnter
    /\ UNCHANGED << module_path, discovered_modules, current_sensor_index, sensor_keys,
                    enable_outputs, errors, entry, subs >>

\* The host tears the flow down while a step waits in a subscribe call or in
\* asyncio.sleep: CancelledError leaves the step at that await, the flow object
\* is dropped, and the MQTT client keeps what the step had subscribed.
Cancel ==
    /\ SessionRunning
    /\ pc' = "cancelled"
    /\ module_path' = ""
    /\ discovered_modules' = {}
    /\ discovered_sensors' = EmptyMap
    /\ current_sensor_index' = 0
    /\ sensor_keys' = <<>>
    /\ enable_outputs' = FALSE
    /\ errors' = ""
    /\ unsubscribes' = <<>>
    /\ pattern_idx' = 0
    /\ published' = {}
    /\ delivered' = {}
    /\ redelivered' = FALSE
    /\ nfail' = 0
    /\ elapsed' = 0
    /\ runs' = <<>>
    /\ presented' = <<>>
    /\ UNCHANGED << entry, subs >>

\* The callbacks of the subscriptions a published topic matches run one after
\* the other.
RECURSIVE Dispatch(_, _, _, _)
Dispatch(receivers, topic, modules, sensors) ==
    IF receivers = {} THEN << modules, sensors >>
    ELSE LET h == CHOOSE r \in receivers : TRUE
         IN  IF h.cb = "module_discovered"
             THEN Dispatch(receivers \ {h}, topic, module_discovered(modules, topic), sensors)
             ELSE Dispatch(receivers \ {h}, topic, modules,
                           message_received(sensors, module_path, topic))

\* The broker publishes one of the given topics while a session runs.
Publish(universe) ==
    /\ SessionRunning
    /\ \E topic \in universe :
        LET receivers == {h \in subs : MatchTable[h.filter][topic]}
            after == Dispatch(receivers, topic, discovered_modules, discovered_sensors)
        IN  /\ Cardinality(published \cup {topic}) <= MaxMsgs
            /\ published' = published \cup {topic}
            /\ delivered' = IF receivers = {} THEN delivered ELSE delivered \cup {topic}
            /\ redelivered' = (redelivered \/ (receivers # {} /\ topic \in delivered)
                                \/ Cardinality(receivers) > 1)
            /\ discovered_modules' = after[1]
            /\ discovered_sensors' = after[2]
    /\ UNCHANGED << pc, module_path, current_sensor_index, sensor_keys, enable_outputs,
                    errors, entry, unsubscribes, pattern_idx, subs, nfail, elapsed, runs, presented >>

\* ------------------------------------------------------------------------
\* config_flow.py: SelfMonOptionsFlow
\* ------------------------------------------------------------------------

\* self._sensors is dict(config_entry.data[CONF_SENSORS]): a new outer dict
\* whose values are the very descriptor dicts of the stored entry, and no step
\* adds or removes a key.  The map the options flow works on is therefore read
\* from, and written to, the entry's sensors.
o_sensors == entry[1].sensors

\* async_get_options_flow, SelfMonOptionsFlow.__init__ and async_step_init()
\* showing its form, for the entry the config flow created.
OptionsOpen ==
    /\ pc = "create_entry"
    /\ o_pc \in {"none", "done", "abandoned"}
    /\ o_pc' = "form_init"
    /\ o_sensor_keys' = <<>>
    /\ o_current_sensor_index' = 0
    /\ o_opened_with' = entry
    /\ UNCHANGED << flowVars, hass_data >>

\* async_step_init(user_input), with the call of async_step_sensor_config()
\* that shows the first sensor.
OptionsInitSubmit ==
    /\ o_pc = "form_init"
    /\ o_sensor_keys' = ConfigurableKeys(o_sensors)
    /\ o_current_sensor_index' = 0
    /\ o_pc' = IF ConfigurableKeys(o_sensors) # <<>> THEN "form_sensor_config" ELSE "done"
    /\ o_opened_with' = IF ConfigurableKeys(o_sensors) # <<>> THEN o_opened_with ELSE <<>>
    /\ UNCHANGED << flowVars, hass_data >>

\* async_step_sensor_config(user_input) of the options flow; on the last
\* sensor async_update_entry stores the map.  hass.data[DOMAIN][entry_id]
\* holds the sensors dict of the entry it was built from, and so the same
\* descriptor dicts.
OptionsSensorConfig ==
    /\ o_pc = "form_sensor_config"
    /\ LET current_key == o_sensor_keys[o_current_sensor_index + 1]
       IN  \E user_input \in SensorInputs(o_sensors[current_key].sensor_type) :
             /\ entry' = [entry EXCEPT ![1].sensors[current_key] = ApplyInput(@, user_input)]
             /\ hass_data' = IF hass_data = <<>> THEN hass_data
                             ELSE [hass_data EXCEPT
                                     ![1].sensors[current_key] = ApplyInput(@, user_input)]
    /\ o_current_sensor_index' = o_current_sensor_index + 1
    /\ o_pc' = IF o_current_sensor_index + 1 >= Len(o_sensor_keys) THEN "done" ELSE o_pc
    /\ o_opened_with' = IF o_current_sensor_index + 1 >= Len(o_sensor_keys)
                        THEN <<>> ELSE o_opened_with
    /\ UNCHANGED << pc, module_path, discovered_modules, discovered_sensors,
                    current_sensor_index, sensor_keys, enable_outputs, errors,
                    unsubscribes, pattern_idx, subs, published, delivered, redelivered, nfail,
                    elapsed, runs, presented, o_sensor_keys >>

\* ------------------------------------------------------------------------
\* get_default_device_class on its own
\* ------------------------------------------------------------------------

\* Characters of the zone ids drawn: decimal digits, a letter, and a digit
\* that is not decimal.
ZoneChars == {"0", "1", "2", "3", "4", "5", "6", "7", "8", "9", "x", "²"}

RECURSIVE StringsUpTo(_)
StringsUpTo(n) ==
    IF n = 0 THEN {""}
    ELSE LET shorter == StringsUpTo(n - 1)
         IN  shorter \cup {str \o c : str \in shorter, c \in ZoneChars}

ZoneIds == StringsUpTo(MaxZoneLen)

\* device_class = get_default_device_class(zone_id, topic)
ApplyDeviceClass ==
    /\ dc_result = Unset
    /\ dc_result' = get_default_device_class(dc_zone)
    /\ UNCHANGED << dc_zone, flowVars, optVars, zoneVars, sensorVars, setupVars >>

\* ------------------------------------------------------------------------
\* binary_sensor.py: SelfMonZoneSensor
\* ------------------------------------------------------------------------

\* Payloads the alarm gateway, or anything else, may publish on a zone topic.
Payloads == {"OPEN", "CLOSED", "garbage", "open"}

\* Variant: every payload but the open marker closes the zone.
zone_message_received_else_closed(is_on, payload) ==
    IF payload = PAYLOAD_OPEN THEN [is_on |-> "True", write |-> TRUE]
    ELSE [is_on |-> "False", write |-> TRUE]

\* message_received(msg) of SelfMonZoneSensor: the new _attr_is_on, and
\* whether async_write_ha_state() is reached.
zone_message_received(is_on, payload) ==
    IF payload = PAYLOAD_OPEN THEN [is_on |-> "True", write |-> TRUE]
    ELSE IF payload = PAYLOAD_CLOSED THEN [is_on |-> "False", write |-> TRUE]
    ELSE [is_on |-> is_on, write |-> FALSE]

\* No step of the zone entity touches the other parts of the model.
ZoneOnly == UNCHANGED << flowVars, optVars, dcVars, sensorVars, setupVars >>

\* async_added_to_hass: mqtt.async_subscribe returns the handle that is kept
\* in self._unsubscribe.
ZoneAdded ==
    /\ z_life = "created"
    /\ z_life' = "added"
    /\ z_unsubscribe' = TRUE
    /\ z_subscribed' = TRUE
    /\ UNCHANGED << z_is_on, z_ha_state, z_writes, z_payloads, z_unsub_calls, z_removals >>
    /\ ZoneOnly

\* async_added_to_hass: mqtt.async_subscribe raises, and self._unsubscribe is
\* never assigned.
ZoneAddFails ==
    /\ z_life = "created"
    /\ z_life' = "add_failed"
    /\ UNCHANGED << z_is_on, z_ha_state, z_writes, z_payloads, z_unsubscribe,
                    z_subscribed, z_unsub_calls, z_removals >>
    /\ ZoneOnly

\* A message arrives on the entity's topic while its subscription is active.
ZoneMessage ==
    /\ z_subscribed
    /\ Len(z_payloads) < MaxPayloads
    /\ \E payload \in Payloads :
        LET r == zone_message_received(z_is_on, payload)
        IN  /\ z_is_on' = r.is_on
            /\ z_ha_state' = IF r.write THEN r.is_on ELSE z_ha_state
            /\ z_writes' = IF r.write THEN z_writes + 1 ELSE z_writes
            /\ z_payloads' = Append(z_payloads, payload)
    /\ UNCHANGED << z_life, z_unsubscribe, z_subscribed, z_unsub_calls, z_removals >>
    /\ ZoneOnly

\* async_will_remove_from_hass: the handle is called when the attribute
\* exists; the attribute is left in place.
ZoneRemoved ==
    /\ z_life \in {"added", "add_failed", "removed"}
    /\ z_removals < MaxRemovals
    /\ z_life' = "removed"
    /\ z_removals' = z_removals + 1
    /\ IF z_unsubscribe
       THEN z_unsub_calls' = z_unsub_calls + 1 /\ z_subscribed' = FALSE
       ELSE UNCHANGED << z_unsub_calls, z_subscribed >>
    /\ UNCHANGED << z_is_on, z_ha_state, z_writes, z_payloads, z_unsubscribe >>
    /\ ZoneOnly

\* ------------------------------------------------------------------------
\* sensor.py: SelfMonOutputSensor, SelfMonTemperatureSensor, SelfMonVKPSensor,
\* SelfMonVersionSensor
\* ------------------------------------------------------------------------

\* float(str): surrounding whitespace is dropped; then an optional sign and
\* either inf, infinity or nan in any case, or a decimal number with an
\* optional fraction and exponent, whose digit groups may hold single
\* underscores between digits.  Anything else raises ValueError.

\* The digits from position i on: where they end, the value of mantissa
\* followed by them, and how many there are.
RECURSIVE ScanDigits(_, _, _, _)
ScanDigits(str, i, mantissa, n) ==
    IF i <= Len(str) /\ Char(str, i) \in DecimalDigits
    THEN ScanDigits(str, i + 1, 10 * mantissa + DigitValue(Char(str, i)), n + 1)
    ELSE IF /\ n > 0
            /\ i + 1 <= Len(str)
            /\ Char(str, i) = "_"
            /\ Char(str, i + 1) \in DecimalDigits
    THEN ScanDigits(str, i + 1, mantissa, n)
    ELSE [next |-> i, value |-> mantissa, n |-> n]

\* m * 10^e with the trailing zeros of m moved into e.
RECURSIVE Normalized(_, _)
Normalized(m, e) ==
    IF m = 0 THEN FloatValue(0, 0)
    ELSE IF m % 10 = 0 THEN Normalized(m \div 10, e + 1)
    ELSE FloatValue(m, e)

Negated(v) ==
    IF v.text = "nan" THEN v
    ELSE IF v.text = "inf" THEN SpecialFloat("-inf")
    ELSE [v EXCEPT !.m = 0 - v.m]

\* float() step by step, each step handing what it has read to the next: the
\* exponent digits and the value, once the whole part, the fraction and the
\* exponent mark have been read.
FloatResult(body, negative, whole, frac, exponent, esigned, edigits) ==
    LET evalue == IF esigned /\ Char(body, frac.next + 1) = "-"
                  THEN 0 - edigits.value ELSE edigits.value
        wellformed == /\ whole.n + frac.n >= 1
                      /\ exponent => edigits.n >= 1
                      /\ edigits.next = Len(body) + 1
        special == Lower(body)
        value == IF special \in {"inf", "infinity"} THEN SpecialFloat("inf")
                 ELSE IF special = "nan" THEN SpecialFloat("nan")
                 ELSE Normalized(frac.value, evalue - frac.n)
    IN  IF special \in {"inf", "infinity", "nan"} \/ wellformed
        THEN [ok |-> TRUE, value |-> IF negative THEN Negated(value) ELSE value]
        ELSE [ok |-> FALSE, value |-> NoValue]

\* The exponent: "e" or "E", a sign, digits.
FloatExponent(body, negative, whole, frac, exponent, esigned) ==
    FloatResult(body, negative, whole, frac, exponent, esigned,
                IF exponent
                THEN ScanDigits(body, frac.next + (IF esigned THEN 2 ELSE 1), 0, 0)
                ELSE [next |-> frac.next, value |-> 0, n |-> 0])

FloatExponentMark(body, negative, whole, frac, exponent) ==
    FloatExponent(body, negative, whole, frac, exponent,
                  /\ exponent
                  /\ frac.next + 1 <= Len(body)
                  /\ Char(body, frac.next + 1) \in {"+", "-"})

\* The fraction: a point and the digits after it, read on into the mantissa.
FloatFraction(body, negative, whole, frac) ==
    FloatExponentMark(body, negative, whole, frac,
                      frac.next <= Len(body) /\ Char(body, frac.next) \in {"e", "E"})

FloatWhole(body, negative, whole) ==
    FloatFraction(body, negative, whole,
                  IF whole.next <= Len(body) /\ Char(body, whole.next) = "."
                  THEN ScanDigits(body, whole.next + 1, whole.value, 0)
                  ELSE [next |-> whole.next, value |-> whole.value, n |-> 0])

\* The digits before the point, after the sign.
FloatBody(body, negative) == FloatWhole(body, negative, ScanDigits(body, 1, 0, 0))

FloatSigned(stripped, signed) ==
    FloatBody(IF signed THEN SubSeq(stripped, 2, Len(stripped)) ELSE stripped,
              signed /\ Char(stripped, 1) = "-")

FloatStripped(stripped) ==
    FloatSigned(stripped, Len(stripped) > 0 /\ Char(stripped, 1) \in {"+", "-"})

\* float(payload): [ok |-> FALSE] stands for ValueError.
float(payload) == FloatStripped(Strip(payload))

\* Payloads that may arrive on a temperature topic, and on the other topics.
TemperaturePayloads == {"21.5", "abc", "-3", " 7\n", "", "1e1", "21.50", "1_0", "nan", "2,5"}

TextPayloads == {"ON", "OFF", "on", "", "SYSTEM ARMED", "21.5"}

SensorPayloads(kind) ==
    IF kind = SENSOR_TYPE_TEMPERATURE THEN TemperaturePayloads ELSE TextPayloads

\* float, tabulated over the payloads of the model.
FloatTable == [payload \in TemperaturePayloads \cup TextPayloads |-> float(payload)]

\* Variant: the output entity keeps only the two tokens it knows.
sensor_message_received_on_off(kind, value, payload) ==
    IF kind = SENSOR_TYPE_TEMPERATURE
    THEN IF FloatTable[payload].ok
         THEN [value |-> FloatTable[payload].value, write |-> TRUE]
         ELSE [value |-> value, write |-> FALSE]
    ELSE IF kind = SENSOR_TYPE_OUTPUT /\ payload \notin {PAYLOAD_ON, PAYLOAD_OFF}
    THEN [value |-> value, write |-> FALSE]
    ELSE [value |-> StrValue(payload), write |-> TRUE]

\* Variant: a temperature that does not parse clears the value.
sensor_message_received_clears(kind, value, payload) ==
    IF kind = SENSOR_TYPE_TEMPERATURE
    THEN IF FloatTable[payload].ok
         THEN [value |-> FloatTable[payload].value, write |-> TRUE]
         ELSE [value |-> NoValue, write |-> TRUE]
    ELSE [value |-> StrValue(payload), write |-> TRUE]

\* message_received(msg) of the entity class of the given sensor type: the
\* new _attr_native_value, and whether async_write_ha_state() is reached.
sensor_message_received(kind, value, payload) ==
    IF kind = SENSOR_TYPE_OUTPUT
    THEN IF payload \in {PAYLOAD_ON, PAYLOAD_OFF}
         THEN [value |-> StrValue(payload), write |-> TRUE]
         ELSE [value |-> StrValue(payload), write |-> TRUE]
    ELSE IF kind = SENSOR_TYPE_TEMPERATURE
    THEN IF FloatTable[payload].ok
         THEN [value |-> FloatTable[payload].value, write |-> TRUE]
         ELSE [value |-> value, write |-> FALSE]
    ELSE [value |-> StrValue(payload), write |-> TRUE]

\* No step of the sensor entity touches the other parts of the model.
SensorOnly == UNCHANGED << flowVars, optVars, dcVars, zoneVars, setupVars >>

\* async_added_to_hass: mqtt.async_subscribe returns the handle that is kept
\* in self._unsubscribe.
SensorAdded ==
    /\ s_life = "created"
    /\ s_life' = "added"
    /\ s_unsubscribe' = TRUE
    /\ s_subscribed' = TRUE
    /\ UNCHANGED << s_kind, s_value, s_ha_state, s_writes, s_payloads, s_unsub_calls,
                    s_removals >>
    /\ SensorOnly

\* async_added_to_hass: mqtt.async_subscribe raises, and self._unsubscribe is
\* never assigned.
SensorAddFails ==
    /\ s_life = "created"
    /\ s_life' = "add_failed"
    /\ UNCHANGED << s_kind, s_value, s_ha_state, s_writes, s_payloads, s_unsubscribe,
                    s_subscribed, s_unsub_calls, s_removals >>
    /\ SensorOnly

\* A message arrives on the entity's topic while its subscription is active.
SensorMessage ==
    /\ s_subscribed
    /\ Len(s_payloads) < MaxPayloads
    /\ \E payload \in SensorPayloads(s_kind) :
        LET r == sensor_message_received(s_kind, s_value, payload)
        IN  /\ s_value' = r.value
            /\ s_ha_state' = IF r.write THEN r.value ELSE s_ha_state
            /\ s_writes' = IF r.write THEN s_writes + 1 ELSE s_writes
            /\ s_payloads' = Append(s_payloads, payload)
    /\ UNCHANGED << s_kind, s_life, s_unsubscribe, s_subscribed, s_unsub_calls, s_removals >>
    /\ SensorOnly

\* SelfMonBaseSensor.async_will_remove_from_hass: the handle is called when
\* the attribute exists; the attribute is left in place.
SensorRemoved ==
    /\ s_life \in {"added", "add_failed", "removed"}
    /\ s_removals < MaxRemovals
    /\ s_life' = "removed"
    /\ s_removals' = s_removals + 1
    /\ IF s_unsubscribe
       THEN s_unsub_calls' = s_unsub_calls + 1 /\ s_subscribed' = FALSE
       ELSE UNCHANGED << s_unsub_calls, s_subscribed >>
    /\ UNCHANGED << s_kind, s_value, s_ha_state, s_writes, s_payloads, s_unsubscribe >>
    /\ SensorOnly

\* ------------------------------------------------------------------------
\* Specifications
\* ------------------------------------------------------------------------

\* No step of the config flow touches the other parts of the model.
FlowOnly == UNCHANGED << optVars, dcVars, zoneVars, sensorVars, setupVars >>

\* No step of the options flow touches the entities or the heuristic.
OptionsOnly == UNCHANGED << dcVars, zoneVars, sensorVars, platforms, entities >>

\* The whole config flow, from async_step_user on, and the options flow of
\* the entry it creates.
Next ==
    \/ UserStart /\ FlowOnly
    \/ UserSubscribe /\ FlowOnly
    \/ UserSubscribeFails /\ FlowOnly
    \/ UserTimer /\ FlowOnly
    \/ SelectModule /\ FlowOnly
    \/ ManualEntry /\ FlowOnly
    \/ OutputConfig /\ FlowOnly
    \/ DiscoverSubscribe /\ FlowOnly
    \/ DiscoverSubscribeFails /\ FlowOnly
    \/ WindowElapses /\ FlowOnly
    \/ DiscoverTimer /\ FlowOnly
    \/ SensorConfig /\ FlowOnly
    \/ Cancel /\ FlowOnly
    \/ Publish(FlowTopics) /\ FlowOnly
    \/ OptionsOpen /\ OptionsOnly
    \/ OptionsInitSubmit /\ OptionsOnly
    \/ OptionsSensorConfig /\ OptionsOnly

Spec == Init /\ [][Next]_vars

\* One sensor discovery session over every topic of the model.  It starts in
\* the state the flow is in after a module discovery session that subscribed
\* every pattern, received selfmon/vmod.a1/temperature and nothing else, and
\* went on to show the output_config form.
DiscoverInit ==
    /\ pc = "form_output_config"
    /\ module_path = "selfmon/vmod.a1"
    /\ discovered_modules = {"selfmon/vmod.a1"}
    /\ discovered_sensors = EmptyMap
    /\ current_sensor_index = 0
    /\ sensor_keys = <<>>
    /\ enable_outputs = FALSE
    /\ errors = ""
    /\ entry = <<>>
    /\ unsubscribes =
         [i \in 1..Len(subscribe_patterns) |-> Sub("module_discovered", subscribe_patterns[i])]
    /\ pattern_idx = Len(subscribe_patterns) + 1
    /\ subs = {}
    /\ published = {"selfmon/vmod.a1/temperature"}
    /\ delivered = {"selfmon/vmod.a1/temperature"}
    /\ redelivered = FALSE
    /\ nfail = 0
    /\ elapsed = MODULE_DISCOVERY_TIMEOUT
    /\ runs = <<>>
    /\ presented = <<>>
    /\ OptionsIdle
    /\ SetupIdle
    /\ DcIdle
    /\ ZoneInit
    /\ SensorInit(SENSOR_TYPE_TEMPERATURE)

\* The topics published in it: those of the module's own tree, and two of the
\* topics of other trees, none of which a filter of the session delivers.
DiscoverTopics ==
    Topics \ {"other/module/topic", "selfmon/vmod.b2/temperature", "selfmon/vmod.a1x/version"}

DiscoverNext ==
    \/ OutputConfig /\ FlowOnly
    \/ DiscoverSubscribe /\ FlowOnly
    \/ DiscoverSubscribeFails /\ FlowOnly
    \/ WindowElapses /\ FlowOnly
    \/ DiscoverTimer /\ FlowOnly
    \/ Cancel /\ FlowOnly
    \/ Publish(DiscoverTopics) /\ FlowOnly

SpecDiscover == DiscoverInit /\ [][DiscoverNext]_vars

\* What may be typed into the manual-entry form: paths with blanks and slashes
\* around them, with upper-case digits, with a character that is no hex digit,
\* without digits, without the prefix, and with a newline before the slash.
TypedPaths ==
    ManualInputs \cup
    { "\tselfmon/vmod.0A//",
      "selfmon/vmod.",
      "selfmon/vmod.a1/x",
      "xselfmon/vmod.a1",
      "selfmon/vmod.a1\n/" }

\* The flow up to the choice of the module: module discovery, the selector,
\* and the manual-entry form.
ModuleNext ==
    \/ UserStart /\ FlowOnly
    \/ UserSubscribe /\ FlowOnly
    \/ WindowElapses /\ FlowOnly
    \/ UserTimer /\ FlowOnly
    \/ SelectModule /\ FlowOnly
    \/ ManualEntryFrom(TypedPaths) /\ FlowOnly
    \/ Publish(FlowTopics) /\ FlowOnly

SpecModule == Init /\ [][ModuleNext]_vars

\* The topics published while the completion of a session is checked: a zone,
\* a zone id that int() rejects, a topic with no zone id, and a topic of
\* another module.
LiveTopics ==
    { "selfmon/vmod.a1/prio/inputs/read/7",
      "selfmon/vmod.a1/prio/inputs/read/²",
      "selfmon/vmod.a1/prio/inputs/read",
      "selfmon/vmod.b2/temperature" }

\* The same session in a flow the host does not tear down, where a subscribe
\* call comes back, time passes, and a sleep that is due returns.
UncancelledNext ==
    \/ OutputConfig /\ FlowOnly
    \/ DiscoverSubscribe /\ FlowOnly
    \/ DiscoverSubscribeFails /\ FlowOnly
    \/ WindowElapses /\ FlowOnly
    \/ DiscoverTimer /\ FlowOnly
    \/ Publish(LiveTopics) /\ FlowOnly

LiveDiscover ==
    /\ DiscoverInit
    /\ [][UncancelledNext]_vars
    /\ WF_vars(DiscoverSubscribe /\ FlowOnly)
    /\ WF_vars(WindowElapses /\ FlowOnly)
    /\ WF_vars(DiscoverTimer /\ FlowOnly)

\* The same session with the sleep followed second by second.
WindowNext ==
    \/ OutputConfig /\ FlowOnly
    \/ DiscoverSubscribe /\ FlowOnly
    \/ DiscoverSubscribeFails /\ FlowOnly
    \/ Tick /\ FlowOnly
    \/ DiscoverTimer /\ FlowOnly
    \/ Cancel /\ FlowOnly
    \/ Publish(LiveTopics) /\ FlowOnly

SpecWindow == DiscoverInit /\ [][WindowNext]_vars

\* The topics published while runs of sensor discovery are compared: two
\* zones the user is asked about, a sensor that is not, and a zone id that
\* int() rejects.
RerunTopics ==
    { "selfmon/vmod.a1/prio/inputs/read/7",
      "selfmon/vmod.a1/vrio/inputs/read/12",
      "selfmon/vmod.a1/temperature",
      "selfmon/vmod.a1/prio/inputs/read/²" }

\* Sensor discovery of one flow object, run again after a run has returned.
RerunNext ==
    \/ OutputConfig /\ FlowOnly
    \/ DiscoverSubscribe /\ FlowOnly
    \/ WindowElapses /\ FlowOnly
    \/ DiscoverTimer /\ FlowOnly
    \/ SensorConfig /\ FlowOnly
    \/ Rediscover /\ FlowOnly
    \/ Publish(RerunTopics) /\ FlowOnly

SpecRerun == DiscoverInit /\ [][RerunNext]_vars

\* get_default_device_class applied to each zone id of ZoneIds.
DeviceClassInit ==
    /\ FlowInit
    /\ OptionsIdle
    /\ SetupIdle
    /\ ZoneInit
    /\ SensorInit(SENSOR_TYPE_TEMPERATURE)
    /\ dc_zone \in ZoneIds
    /\ dc_result = Unset

DeviceClassNext == ApplyDeviceClass

SpecDeviceClass == DeviceClassInit /\ [][DeviceClassNext]_vars

\* One zone entity and the payloads it receives.
ZoneNext ==
    \/ ZoneAdded
    \/ ZoneAddFails
    \/ ZoneMessage
    \/ ZoneRemoved

SpecZone == Init /\ [][ZoneNext]_vars

\* One sensor.py entity of any of the four classes and the payloads it
\* receives.
SensorKinds ==
    {SENSOR_TYPE_OUTPUT, SENSOR_TYPE_TEMPERATURE, SENSOR_TYPE_VKP_LINE, SENSOR_TYPE_VERSION}

SensorEntityInit ==
    /\ FlowInit
    /\ OptionsIdle
    /\ SetupIdle
    /\ DcIdle
    /\ ZoneInit
    /\ \E kind \in SensorKinds : SensorInit(kind)

SensorNext ==
    \/ SensorAdded
    \/ SensorAddFails
    \/ SensorMessage
    \/ SensorRemoved

SpecSensor == SensorEntityInit /\ [][SensorNext]_vars

\* The zone entity and one sensor.py entity from construction to removal, with
\* the removal hook run up to MaxRemovals times on each.
LifecycleNext ==
    \/ ZoneAdded
    \/ ZoneAddFails
    \/ ZoneRemoved
    \/ SensorAdded
    \/ SensorAddFails
    \/ SensorRemoved

SpecLifecycle == SensorEntityInit /\ [][LifecycleNext]_vars

\* Both discovery sessions with any of their subscribe calls raising, over a
\* few topics, in a flow the host does not tear down.
FailureTopics ==
    { "selfmon/vmod.a1/prio/inputs/read/7",
      "selfmon/vmod.a1/temperature",
      "selfmon/vmod.b2/temperature" }

FailureNext ==
    \/ UserStart /\ FlowOnly
    \/ UserSubscribe /\ FlowOnly
    \/ UserSubscribeRaises /\ FlowOnly
    \/ UserTimer /\ FlowOnly
    \/ SelectModule /\ FlowOnly
    \/ OutputConfig /\ FlowOnly
    \/ DiscoverSubscribe /\ FlowOnly
    \/ DiscoverSubscribeRaises /\ FlowOnly
    \/ WindowElapses /\ FlowOnly
    \/ DiscoverTimer /\ FlowOnly
    \/ Publish(FailureTopics) /\ FlowOnly

SpecFailures == Init /\ [][FailureNext]_vars

\* ------------------------------------------------------------------------
\* Properties
\* ------------------------------------------------------------------------

\* A sensor discovery session is running or has ended.
DiscoverScope == pc \notin {"form_output_config", "cancelled"}

\* The part of a topic after the module base path and "/", for a topic of
\* the module; other topics have none.
OfModule(topic) == StartsWith(topic, module_path \o "/")

ModuleRelative(topic) ==
    IF OfModule(topic) THEN SubSeq(topic, Len(module_path) + 2, Len(topic)) ELSE "<foreign>"

Stored(topic) == topic \in DOMAIN discovered_sensors

\* The device class by the last decimal digit of a zone id; an id that is not
\* a decimal number counts as 0.
ClassOfLastDigit(zone_id) ==
    LET numeric == Len(zone_id) > 0
                   /\ \A i \in 1..Len(zone_id) : Char(zone_id, i) \in DecimalDigits
        digit == IF numeric THEN DigitValue(Char(zone_id, Len(zone_id))) ELSE 0
    IN  CASE digit \in {1, 7} -> "door"
          [] digit \in {2, 8} -> "motion"
          [] digit \in {4, 6} -> "smoke"
          [] digit \in {3, 5} -> "safety"
          [] OTHER -> "None"

\* The default name by kind and zone id.
NameOfKind(kind, zone_id) ==
    CASE kind = "zone_input" -> "Alarm - Zone " \o zone_id
      [] kind = "output" -> "Alarm - Output " \o zone_id
      [] kind = "temperature" -> "Temperature Sensor"
      [] kind = "vkp_line" /\ zone_id = "line1" -> "Keypad Line 1"
      [] kind = "vkp_line" /\ zone_id = "line2" -> "Keypad Line 2"
      [] kind = "version" -> "Module Version"
      [] OTHER -> "<no name>"

\* C1: on every exit path of a discovery session, cancellation while it waits
\* included, every subscription the session opened has been unsubscribed: no
\* session subscription is active once no session is running.
C1_NoSubscriptionAfterSession == ~SessionRunning => subs = {}

\* C2: a topic whose module-relative part starts with prio/outputs/ or
\* vrio/outputs/ yields no descriptor when outputs are not enabled; with
\* outputs enabled, classifying it yields an Output descriptor whose zone id
\* is the final path segment, with device class none and not auto-enabled.
C2_OutputsOnlyWhenEnabled ==
    DiscoverScope =>
        \A t \in published :
            LET rel == ModuleRelative(t)
            IN  (StartsWith(rel, "prio/outputs/") \/ StartsWith(rel, "vrio/outputs/")) =>
                    IF enable_outputs
                    THEN t \in delivered =>
                            /\ Stored(t)
                            /\ discovered_sensors[t].sensor_type = "output"
                            /\ discovered_sensors[t].zone_id = LastSegment(t)
                            /\ discovered_sensors[t].device_class = "None"
                            /\ discovered_sensors[t].auto_enabled = FALSE
                    ELSE ~Stored(t)

\* Both output topics were published in a session without outputs, whose six
\* subscriptions are all active, and neither is stored.
C2_Witness ==
    /\ pc = "discover_sleeping"
    /\ ~enable_outputs
    /\ Len(unsubscribes) = 6
    /\ published = {"selfmon/vmod.a1/prio/outputs/3", "selfmon/vmod.a1/vrio/outputs/3"}
    /\ DOMAIN discovered_sensors = {}

\* C3: no descriptor is stored for a topic that does not begin with the module
\* base path followed by "/", whatever the rest of the topic looks like.
C3_ForeignTopicsNotStored ==
    DiscoverScope => \A t \in published : ~OfModule(t) => ~Stored(t)

\* A bare relative name and a topic holding the base path in its middle were
\* published to a fully subscribed session, and nothing is stored.
C3_Witness ==
    /\ pc = "discover_sleeping"
    /\ enable_outputs
    /\ Len(unsubscribes) = 8
    /\ published = {"temperature", "prio/inputs/read/selfmon/vmod.a1/5"}
    /\ DOMAIN discovered_sensors = {}

\* C4: a received topic is classified as ZoneInput exactly when its
\* module-relative part starts with prio/inputs/read/ or vrio/inputs/read/,
\* trailing slash included; its zone id is then the final path segment and
\* it is not auto-enabled.  (A message whose handling raises stores nothing,
\* which C6 is about.)
C4_ZoneInputIffReadPrefix ==
    DiscoverScope =>
        \A t \in delivered :
            LET rel == ModuleRelative(t)
                prefixed == \/ StartsWith(rel, "prio/inputs/read/")
                            \/ StartsWith(rel, "vrio/inputs/read/")
                zone == Stored(t) /\ discovered_sensors[t].sensor_type = "zone_input"
            IN  /\ zone => /\ prefixed
                           /\ discovered_sensors[t].zone_id = LastSegment(t)
                           /\ discovered_sensors[t].auto_enabled = FALSE
                /\ (prefixed /\ ~Raises(module_path, t)) => zone

\* C5: a ZoneInput or Output descriptor has is_prio true if and only if the
\* module-relative part of its topic begins with the prio/ branch, whatever
\* the later path segments contain.
C5_PriorityIffPrioBranch ==
    DiscoverScope =>
        \A t \in DOMAIN discovered_sensors :
            discovered_sensors[t].sensor_type \in {"zone_input", "output"} =>
                (discovered_sensors[t].is_prio <=> StartsWith(ModuleRelative(t), "prio/"))

\* C6: the default device class is a function of the zone number modulo 10
\* only (1, 7 door; 2, 8 motion; 4, 6 smoke; 3, 5 safety; 0, 9 none), and a
\* zone id that is not a number is treated as 0 and gives none, without an
\* error.
C6_DeviceClassByLastDigit ==
    dc_result # Unset => dc_result = ClassOfLastDigit(dc_zone)

\* C7: a descriptor is auto-enabled if and only if its kind is Temperature,
\* KeypadLine or Version, and not auto-enabled if and only if its kind is
\* ZoneInput or Output.
C7_AutoEnabledByKind ==
    DiscoverScope =>
        \A t \in DOMAIN discovered_sensors :
            LET d == discovered_sensors[t]
            IN  /\ d.auto_enabled = TRUE <=> d.sensor_type \in {"temperature", "vkp_line", "version"}
                /\ d.auto_enabled = FALSE <=> d.sensor_type \in {"zone_input", "output"}

\* A session has stored an auto-enabled descriptor and one that is not.
C7_Witness ==
    /\ pc = "discover_sleeping"
    /\ DOMAIN discovered_sensors =
         {"selfmon/vmod.a1/temperature", "selfmon/vmod.a1/prio/outputs/3"}

\* The kind the rules give a module-relative topic, first match first:
\* ZoneInput, Output (when enabled), Temperature, KeypadLine, Version.
KindByRule(rel, outputs) ==
    IF StartsWith(rel, "prio/inputs/read/") \/ StartsWith(rel, "vrio/inputs/read/")
    THEN "zone_input"
    ELSE IF outputs /\ (StartsWith(rel, "prio/outputs/") \/ StartsWith(rel, "vrio/outputs/"))
    THEN "output"
    ELSE IF rel = "temperature" THEN "temperature"
    ELSE IF rel \in {"vkp/display/line1", "vkp/display/line2"} THEN "vkp_line"
    ELSE IF rel = "version" THEN "version"
    ELSE "<none>"

\* C8: the rules apply in the order ZoneInput, Output, Temperature,
\* KeypadLine, Version: "temperature" yields Temperature with zone id
\* "temperature", vkp/display/line1 and line2 yield KeypadLine with zone id
\* "line1" and "line2", "version" yields Version with zone id "version", and a
\* received topic that matches no rule yields no descriptor.
C8_FirstRuleElseNothing ==
    DiscoverScope =>
        \A t \in delivered :
            LET rel == ModuleRelative(t)
                kind == KindByRule(rel, enable_outputs)
            IN  IF kind = "<none>" THEN ~Stored(t)
                ELSE ~Raises(module_path, t) =>
                        /\ Stored(t)
                        /\ discovered_sensors[t].sensor_type = kind
                        /\ kind = "temperature" => discovered_sensors[t].zone_id = "temperature"
                        /\ kind = "version" => discovered_sensors[t].zone_id = "version"
                        /\ kind = "vkp_line" => discovered_sensors[t].zone_id = LastSegment(t)

\* C9: every descriptor of the map has the default name of its kind and zone
\* id, every ZoneInput descriptor has the device class of the zone heuristic
\* on its zone id, and descriptors of equal kind and zone id have equal name
\* and device class.
C9_DefaultsFromKindAndZoneId ==
    DiscoverScope =>
        \A t \in DOMAIN discovered_sensors :
            LET d == discovered_sensors[t]
            IN  /\ d.name = NameOfKind(d.sensor_type, d.zone_id)
                /\ d.sensor_type = "zone_input" => d.device_class = ClassOfLastDigit(d.zone_id)
                /\ \A u \in DOMAIN discovered_sensors :
                    LET e == discovered_sensors[u]
                    IN  (e.sensor_type = d.sensor_type /\ e.zone_id = d.zone_id) =>
                            (e.name = d.name /\ e.device_class = d.device_class)

\* A session has ended with a zone and the second keypad line in its map.
C9_Witness ==
    /\ pc = "form_sensor_config"
    /\ DOMAIN discovered_sensors =
         {"selfmon/vmod.a1/vrio/inputs/read/12", "selfmon/vmod.a1/vkp/display/line2"}

\* The state the open and closed markers of a payload history leave: that of
\* the most recent marker, the initial unknown state when there is none.
RECURSIVE StateOfMarkers(_)
StateOfMarkers(history) ==
    IF history = <<>> THEN "None"
    ELSE LET last == history[Len(history)]
         IN  IF last = "OPEN" THEN "True"
             ELSE IF last = "CLOSED" THEN "False"
             ELSE StateOfMarkers(SubSeq(history, 1, Len(history) - 1))

MarkerCount(history) ==
    Cardinality({i \in 1..Len(history) : history[i] \in {"OPEN", "CLOSED"}})

\* C10: after each message the zone decoder's state is that of the most
\* recent open or closed marker, the initial unknown state if there was none;
\* a payload that is neither marker changes nothing and writes no state.
C10_ZoneStateFollowsMarkers ==
    /\ z_is_on = StateOfMarkers(z_payloads)
    /\ z_writes = MarkerCount(z_payloads)
    /\ z_ha_state = IF MarkerCount(z_payloads) = 0 THEN Unset ELSE z_is_on

\* The decoder was fed the open marker, the closed marker and garbage.
C10_Witness ==
    /\ z_payloads = <<"OPEN", "CLOSED", "garbage">>
    /\ z_is_on = "False"
    /\ z_writes = 2

\* The number a temperature payload stands for, "<no number>" otherwise:
\* decimal notation with an optional sign, fraction and exponent, blanks
\* around it and "_" between digits allowed, and the floating-point value nan.
NumberOf(payload) ==
    CASE payload = "21.5" -> FloatValue(215, 0 - 1)
      [] payload = "21.50" -> FloatValue(215, 0 - 1)
      [] payload = "-3" -> FloatValue(0 - 3, 0)
      [] payload = " 7\n" -> FloatValue(7, 0)
      [] payload = "1e1" -> FloatValue(1, 1)
      [] payload = "1_0" -> FloatValue(1, 1)
      [] payload = "nan" -> SpecialFloat("nan")
      [] OTHER -> [kind |-> "<no number>", text |-> "", m |-> 0, e |-> 0]

IsNumber(payload) == NumberOf(payload).kind = "float"

\* The number of the most recent payload that is one, the initial unknown
\* value when there is none.
RECURSIVE LastNumber(_)
LastNumber(history) ==
    IF history = <<>> THEN NoValue
    ELSE IF IsNumber(history[Len(history)]) THEN NumberOf(history[Len(history)])
    ELSE LastNumber(SubSeq(history, 1, Len(history) - 1))

NumberCount(history) == Cardinality({i \in 1..Len(history) : IsNumber(history[i])})

\* C11: after each message the temperature decoder's value is the number of
\* the most recent payload that parses as one, the initial unknown value if
\* there was none; a state update is emitted for each payload that parses and
\* for no other.
C11_TemperatureFollowsNumbers ==
    s_kind = SENSOR_TYPE_TEMPERATURE =>
        /\ s_value = LastNumber(s_payloads)
        /\ s_writes = NumberCount(s_payloads)
        /\ s_ha_state = IF NumberCount(s_payloads) = 0 THEN NoState ELSE s_value

\* The temperature decoder was fed 21.5 and then a payload that does not parse.
C11_Witness ==
    /\ s_kind = SENSOR_TYPE_TEMPERATURE
    /\ s_payloads = <<"21.5", "abc">>
    /\ s_value = FloatValue(215, 0 - 1)
    /\ s_writes = 1

\* C12: after every message the state of an Output, KeypadLine or Version
\* decoder is that message's payload verbatim, whatever the payload, and a
\* state update was emitted for every message.
C12_PayloadPassedThrough ==
    (s_kind \in {SENSOR_TYPE_OUTPUT, SENSOR_TYPE_VKP_LINE, SENSOR_TYPE_VERSION}
     /\ s_payloads # <<>>) =>
        /\ s_value = StrValue(s_payloads[Len(s_payloads)])
        /\ s_ha_state = StrValue(s_payloads[Len(s_payloads)])
        /\ s_writes = Len(s_payloads)

\* The output decoder was fed the ON token and then a payload that is neither
\* token.
C12_Witness ==
    /\ s_kind = SENSOR_TYPE_OUTPUT
    /\ s_payloads = <<"ON", "SYSTEM ARMED">>
    /\ s_value = StrValue("SYSTEM ARMED")
    /\ s_writes = 2

\* C13: a discovery session in whose window no matching message arrived ends
\* with the manual-entry form carrying no_modules_found (module discovery) or
\* no_sensors_found (sensor discovery), and creates no config entry.
C13_EmptySessionShowsManualEntry ==
    [][ (SessionRunning /\ delivered = {} /\ ~SessionRunning' /\ pc' # "cancelled") =>
            /\ pc' = "form_manual_entry"
            /\ errors' = IF pc = "user_sleeping" THEN "no_modules_found"
                         ELSE "no_sensors_found"
            /\ entry = <<>>
            /\ entry' = <<>> ]_vars

\* A sensor discovery session has waited its window without a message and has
\* returned the manual-entry form.
C13_Witness ==
    /\ pc = "form_manual_entry"
    /\ errors = "no_sensors_found"
    /\ delivered = {}
    /\ elapsed = DISCOVERY_TIMEOUT
    /\ entry = <<>>

\* The patterns of the session that is running.
SessionPatterns ==
    IF pc \in {"user_subscribing", "user_sleeping"} THEN subscribe_patterns
    ELSE topics_to_subscribe(module_path, enable_outputs)

\* C14: a subscribe that fails does not end the session: the loop goes on to
\* the next pattern, the session waits its window, the handles unsubscribed
\* at its end are exactly those obtained, and what it returns are the modules,
\* or the descriptors, of the messages delivered through them.
C14_SubscribeFailureSkipped ==
    /\ [](SessionRunning =>
            /\ Range(unsubscribes) = subs
            /\ Len(unsubscribes) + nfail = pattern_idx - 1
            /\ Sleeping => pattern_idx - 1 = Len(SessionPatterns)
            /\ \A t \in delivered : \E h \in subs : Matches(h.filter, t))
    /\ [][nfail' = nfail + 1 =>
            (SessionRunning' /\ pattern_idx' = pattern_idx + 1 /\ subs' = subs)]_vars
    /\ [][(SessionRunning /\ ~SessionRunning') =>
            /\ Sleeping
            /\ elapsed = Timeout
            /\ subs' = {}
            /\ pc = "user_sleeping" =>
                 discovered_modules' = {ModuleMatch(t) : t \in delivered} \ {""}
            /\ pc = "discover_sleeping" =>
                 /\ DOMAIN discovered_sensors' =
                      {t \in delivered : Classify(module_path, t) # <<>>}
                 /\ (DOMAIN discovered_sensors' = {}) = (pc' = "form_manual_entry")]_vars

\* A sensor discovery session in which two subscribes failed, one of them the
\* temperature topic's, has ended with the zone that was delivered.
C14_Witness ==
    /\ pc = "form_sensor_config"
    /\ nfail = 2
    /\ Len(unsubscribes) = Len(topics_to_subscribe(module_path, enable_outputs)) - 2
    /\ published = {"selfmon/vmod.a1/prio/inputs/read/7", "selfmon/vmod.a1/temperature"}
    /\ DOMAIN discovered_sensors = {"selfmon/vmod.a1/prio/inputs/read/7"}
    /\ subs = {}

\* A sensor discovery session has returned a form or the entry.
Returned == pc \in {"form_manual_entry", "form_sensor_config", "create_entry"}

\* C15: every discovery session that is started completes and returns a
\* result, whichever subscribes fail and whichever messages are delivered,
\* malformed topics and zone ids that are not decimal numbers included.
C15_SessionCompletes == SessionRunning ~> Returned

\* A session in which a subscribe failed and whose only message had a zone id
\* that int() rejects has returned.
C15_Witness ==
    /\ Returned
    /\ nfail = 1
    /\ delivered = {"selfmon/vmod.a1/prio/inputs/read/²"}
    /\ Raises(module_path, "selfmon/vmod.a1/prio/inputs/read/²")
    /\ Len(runs) = 1
    /\ runs[1].done

\* A topic for which message_received stores a descriptor.
Stores(path, topic) ==
    /\ ~ReceivedTable[path][topic].raises
    /\ ReceivedTable[path][topic].stored # <<>>

\* The map a session over the set S of delivered topics is expected to leave.
ExpectedMap(path, S) ==
    [t \in {x \in S : Stores(path, x)} |-> ReceivedTable[path][t].stored[1]]

\* C16: a discovery session never ends early.  A step that releases a
\* subscription of a running session, or that returns its result, is taken
\* only when the full window has elapsed, whatever has been received; and the
\* result holds a descriptor for every topic delivered before that which the
\* callback classifies.
C16_NeverEndsEarly ==
    [][ /\ (SessionRunning /\ (\E h \in subs : h \notin subs')) => elapsed = Timeout
        /\ (SessionRunning /\ Returned') =>
              /\ elapsed = Timeout
              /\ subs' \cap Range(unsubscribes) = {}
              /\ \A t \in delivered :
                    Stores(module_path, t) => t \in DOMAIN discovered_sensors' ]_vars

\* A session that received two topics has returned, after the whole
\* window, with its subscriptions released.
C16_Witness ==
    /\ pc = "form_sensor_config"
    /\ elapsed = DISCOVERY_TIMEOUT
    /\ Cardinality(delivered) = 2
    /\ DOMAIN discovered_sensors = {"selfmon/vmod.a1/prio/inputs/read/7"}
    /\ unsubscribes # <<>>
    /\ subs = {}

\* Two finished runs for the same module, outputs setting and delivered topics.
SameRun(a, b) ==
    /\ a.done /\ b.done
    /\ a.module_path = b.module_path
    /\ a.enable_outputs = b.enable_outputs
    /\ a.delivered = b.delivered

\* C17: two runs of sensor discovery for the same module, with the same
\* outputs setting and the same set of delivered topics, return the same
\* descriptor map; a run holds an empty map until a topic is delivered to it,
\* whatever map the flow object held when the run was entered.
C17_RerunSameMap ==
    /\ \A i, j \in 1..Len(runs) :
          SameRun(runs[i], runs[j]) => runs[i].sensors = runs[j].sensors
    /\ (pc \in {"discover_subscribing", "discover_sleeping"} /\ delivered = {})
          => discovered_sensors = EmptyMap

\* A second run, entered with a map in which the user had renamed a zone of
\* the first run, has returned for the same delivered topics.
C17_Witness ==
    /\ Len(runs) = 2
    /\ SameRun(runs[1], runs[2])
    /\ runs[1].delivered # {}
    /\ runs[2].entered_with # runs[1].sensors
    /\ \E t \in DOMAIN runs[2].entered_with :
          /\ t \in DOMAIN runs[1].sensors
          /\ runs[2].entered_with[t].name # runs[1].sensors[t].name
          /\ runs[2].sensors[t] = runs[1].sensors[t]

\* C18: the map of a sensor discovery session is a function of the set of
\* topics delivered to it: one descriptor for each delivered topic that the
\* callback classifies, whatever the order of the deliveries and however often
\* a topic was delivered; and that is the map a finished run returned.
C18_ResultFromTopicSet ==
    /\ pc \in {"discover_subscribing", "discover_sleeping"}
          => discovered_sensors = ExpectedMap(module_path, delivered)
    /\ \A i \in 1..Len(runs) :
          runs[i].done =>
              runs[i].sensors = ExpectedMap(runs[i].module_path, runs[i].delivered)

\* A run in which a topic was delivered more than once has returned with two
\* descriptors.
C18_Witness ==
    /\ Len(runs) = 1
    /\ runs[1].done
    /\ redelivered
    /\ Cardinality(runs[1].delivered) = 2
    /\ DOMAIN runs[1].sensors = runs[1].delivered

\* A descriptor map whose descriptors carry their key as topic, no topic twice,
\* and whose keys are topics the session callback was given.
KeyedByDeliveredTopic(sensors) ==
    /\ \A t \in DOMAIN sensors : sensors[t].topic = t
    /\ \A t, u \in DOMAIN sensors : sensors[t].topic = sensors[u].topic => t = u
    /\ DOMAIN sensors \subseteq delivered

\* C19: in every state of the config flow and of the options flow, the
\* descriptor map (the flow's own, and the one of the entry, which the options
\* flow edits) holds one descriptor per topic, each under its own topic as key,
\* and each key is a topic that was delivered during the discovery session.
C19_MapKeyedByDeliveredTopic ==
    /\ KeyedByDeliveredTopic(discovered_sensors)
    /\ entry # <<>> => KeyedByDeliveredTopic(o_sensors)

\* The options flow has gone through the sensors of an entry with two
\* descriptors and has changed one of them.
C19_Witness ==
    /\ entry # <<>>
    /\ o_pc = "done"
    /\ o_current_sensor_index >= 1
    /\ Cardinality(DOMAIN o_sensors) = 2
    /\ o_sensors # discovered_sensors

\* An entity that holds its subscription while it is added and whose handle
\* has been called once when it is removed after a subscribe that succeeded,
\* and never otherwise.
HeldThenReleasedOnce(life, has_handle, subscribed, unsub_calls) ==
    /\ life = "created" => ~subscribed /\ unsub_calls = 0
    /\ life = "added" => subscribed /\ unsub_calls = 0
    /\ life = "add_failed" => ~subscribed /\ unsub_calls = 0
    /\ life = "removed" => ~subscribed /\ unsub_calls = (IF has_handle THEN 1 ELSE 0)

\* C20: each entity (zone, output, temperature, keypad line, version) holds
\* its subscription from the moment it is added until it is removed, and its
\* unsubscribe handle is called exactly once on removal: not a second time
\* when the removal hook runs again, and not at all when the subscribe call
\* had failed.
C20_ReleasedExactlyOnce ==
    /\ HeldThenReleasedOnce(z_life, z_unsubscribe, z_subscribed, z_unsub_calls)
    /\ HeldThenReleasedOnce(s_life, s_unsubscribe, s_subscribed, s_unsub_calls)

\* A path that is the prefix followed by hexadecimal digits and nothing else.
StrictModulePath(path) ==
    /\ StartsWith(path, MODULE_PREFIX)
    /\ Len(path) > Len(MODULE_PREFIX)
    /\ \A i \in (Len(MODULE_PREFIX) + 1)..Len(path) : Char(path, i) \in HexDigits

\* C21: a step of the manual-entry form either accepts a path that is the
\* prefix selfmon/vmod. followed by hexadecimal digits only (the trimmed
\* input becomes the module path and the flow goes on, or aborts for a module
\* already configured), or shows the form again with invalid_path and leaves
\* the module path as it was.
C21_ManualPathValidated ==
    [][ pc = "form_manual_entry" =>
          \/ /\ pc' = "form_output_config"
             /\ StrictModulePath(module_path')
          \/ /\ pc' = "abort"
             /\ module_path' = module_path
          \/ /\ pc' = "form_manual_entry"
             /\ errors' = "invalid_path"
             /\ module_path' = module_path ]_vars

\* The base of a topic: the part before the first "/" after the prefix.
BaseOf(topic) ==
    LET rest == SubSeq(topic, Len(MODULE_PREFIX) + 1, Len(topic))
        slash == Find(rest, "/")
    IN  IF slash = 0 THEN topic ELSE SubSeq(topic, 1, Len(MODULE_PREFIX) + slash - 1)

\* C22: the set a module discovery session returns holds the base path of
\* every delivered topic whose base is selfmon/vmod. followed by hexadecimal
\* digits only, and nothing else: no truncated base, and nothing for a topic
\* that does not start with the prefix.
C22_ModulesAreCompleteBases ==
    pc \in {"form_manual_entry", "form_select_module", "form_output_config"} =>
        discovered_modules =
            {BaseOf(t) : t \in {d \in delivered : StrictModulePath(BaseOf(d))}}

\* The last sensor discovery run of the flow has returned.
DiscoveryFinished == Len(runs) >= 1 /\ runs[Len(runs)].done

EntryCreated == entry = <<>> /\ entry' # <<>>

\* C24: when the config flow creates the entry, the descriptors that are not
\* auto-enabled are the zone inputs and outputs, each of them has been
\* presented in exactly one per-sensor step, the steps came in ascending order
\* of topic, and the entry holds for each the enabled value submitted in its
\* step; an auto-enabled descriptor was presented in no step and is stored
\* enabled.
C24_EachConfigurablePresentedOnce ==
    [][ EntryCreated =>
          LET sensors == entry'[1].sensors
              shown == presented'
          IN  /\ \A k \in DOMAIN sensors :
                    ~sensors[k].auto_enabled <=>
                        sensors[k].sensor_type \in {SENSOR_TYPE_ZONE_INPUT, SENSOR_TYPE_OUTPUT}
              /\ \A k \in DOMAIN sensors :
                    IF sensors[k].auto_enabled
                    THEN /\ sensors[k].enabled
                         /\ \A i \in 1..Len(shown) : shown[i].key # k
                    ELSE Cardinality({i \in 1..Len(shown) : shown[i].key = k}) = 1
              /\ \A i \in 1..Len(shown) :
                    /\ shown[i].key \in DOMAIN sensors
                    /\ sensors[shown[i].key].enabled = shown[i].enabled
              /\ \A i, j \in 1..Len(shown) :
                    i < j => StrLess(shown[i].key, shown[j].key) ]_vars

\* An entry created after two per-sensor steps whose submitted enabled values
\* differ, before any options flow.
C24_Witness ==
    /\ pc = "create_entry"
    /\ o_pc = "none"
    /\ Len(presented) = 2
    /\ presented[1].enabled # presented[2].enabled
    /\ entry[1].sensors[presented[1].key].enabled = presented[1].enabled
    /\ entry[1].sensors[presented[2].key].enabled = presented[2].enabled

\* What one per-sensor step may do to a map of descriptors when its current
\* key is key: the keys stay, every other descriptor stays, and of the current
\* descriptor only enabled, name and device_class may differ.  The form holds
\* a device class only for a zone input, so only then may it differ.
StepFrame(before, after, key) ==
    /\ DOMAIN after = DOMAIN before
    /\ \A k \in DOMAIN before \ {key} : after[k] = before[k]
    /\ DOMAIN after[key] = DOMAIN before[key]
    /\ \A f \in DOMAIN before[key] \ {"enabled", "name", "device_class"} :
          after[key][f] = before[key][f]
    /\ after[key].device_class # before[key].device_class =>
          before[key].sensor_type = SENSOR_TYPE_ZONE_INPUT

\* C25: a per-sensor step, of the config flow or of the options flow, changes
\* only enabled, name and device class of the descriptor at the cursor: its
\* topic, kind, zone id, priority flag and auto-enabled flag, every other
\* descriptor and the set of keys stay, and the device class changes only when
\* the input holds one.
C25_StepTouchesCurrentOnly ==
    [][ /\ (pc = "form_sensor_config" /\ current_sensor_index' # current_sensor_index) =>
              /\ StepFrame(discovered_sensors, discovered_sensors',
                           sensor_keys[current_sensor_index + 1])
              /\ sensor_keys' = sensor_keys
              /\ entry' # entry => entry'[1].sensors = discovered_sensors'
        /\ (o_pc = "form_sensor_config" /\ o_current_sensor_index' # o_current_sensor_index) =>
              /\ StepFrame(entry[1].sensors, entry'[1].sensors,
                           o_sensor_keys[o_current_sensor_index + 1])
              /\ o_sensor_keys' = o_sensor_keys
              /\ entry'[1].module_path = entry[1].module_path
              /\ entry'[1].enable_outputs = entry[1].enable_outputs ]_vars

\* Both flows have taken a per-sensor step on the same zone input: the config
\* flow gave it a device class other than its default, the options flow then
\* changed its enabled value, and its topic is still its key.
C25_Witness ==
    /\ o_pc = "done"
    /\ o_current_sensor_index >= 1
    /\ Len(presented) >= 1
    /\ LET key == presented[1].key
           data == entry[1].sensors[key]
       IN  /\ data.sensor_type = SENSOR_TYPE_ZONE_INPUT
           /\ data.device_class = DEVICE_CLASS_OPTIONS[5]
           /\ data.device_class # get_default_device_class(data.zone_id)
           /\ data.enabled # presented[1].enabled
           /\ data.topic = key

\* ------------------------------------------------------------------------
\* Setting up the platforms for a stored entry
\* ------------------------------------------------------------------------

\* Descriptors a stored entry holds at most, and the topics they are for.
MaxDescriptors == 2

StoredModule == "selfmon/vmod.a1"

StoredTopics ==
    { "selfmon/vmod.a1/prio/inputs/read/7",
      "selfmon/vmod.a1/vrio/inputs/read/12",
      "selfmon/vmod.a1/prio/outputs/3",
      "selfmon/vmod.a1/vrio/outputs/3",
      "selfmon/vmod.a1/temperature",
      "selfmon/vmod.a1/vkp/display/line1",
      "selfmon/vmod.a1/version" }

\* What the config flow may have stored for a topic: the descriptor
\* message_received built, with what a sensor_config step submitted when the
\* descriptor is not auto-enabled.
StoredDescriptors(topic) ==
    LET data == Classify(StoredModule, topic)[1]
    IN  IF data.auto_enabled THEN {data}
        ELSE {ApplyInput(data, user_input) : user_input \in SensorInputs(data.sensor_type)}

\* The data of the entries the config flow may have created for the module;
\* outputs are only there when they were asked for.
StoredEntries ==
    UNION { { [module_path |-> StoredModule, sensors |-> sensors, enable_outputs |-> outputs] :
                sensors \in { m \in [S -> UNION {StoredDescriptors(t) : t \in S}] :
                                 \A t \in S : m[t] \in StoredDescriptors(t) },
                outputs \in { b \in BOOLEAN :
                                 (\E t \in S : IsOutputTopic(RelativeTopic(StoredModule, t))) => b } } :
            S \in { T \in SUBSET StoredTopics : Cardinality(T) <= MaxDescriptors } }

\* The host holds an entry the config flow created; the flow object is gone.
StoredInit ==
    /\ \E data \in StoredEntries :
         /\ entry = <<data>>
         /\ module_path = data.module_path
         /\ discovered_sensors = data.sensors
         /\ enable_outputs = data.enable_outputs
    /\ pc = "create_entry"
    /\ discovered_modules = {}
    /\ current_sensor_index = 0
    /\ sensor_keys = <<>>
    /\ errors = ""
    /\ unsubscribes = <<>>
    /\ pattern_idx = 0
    /\ subs = {}
    /\ published = {}
    /\ delivered = {}
    /\ redelivered = FALSE
    /\ nfail = 0
    /\ elapsed = 0
    /\ runs = <<>>
    /\ presented = <<>>
    /\ OptionsIdle
    /\ SetupIdle
    /\ DcIdle
    /\ ZoneInit
    /\ SensorInit(SENSOR_TYPE_TEMPERATURE)

\* module_id = module_path.split(".")[-1] if "." in module_path else module_path
ModuleId(path) ==
    IF Contains(path, ".") THEN LET parts == Split(path, ".") IN parts[Len(parts)]
    ELSE path

\* The entity classes of the two platforms.
ZoneSensor == "SelfMonZoneSensor"
OutputSensor == "SelfMonOutputSensor"
TemperatureSensor == "SelfMonTemperatureSensor"
VKPSensor == "SelfMonVKPSensor"
VersionSensor == "SelfMonVersionSensor"

\* _attr_unique_id as the __init__ of each entity class builds it.
UniqueId(class, path, zone_id) ==
    "selfmon_" \o ModuleId(path) \o
        ( IF class = ZoneSensor THEN "_zone_" \o zone_id
          ELSE IF class = OutputSensor THEN "_output_" \o zone_id
          ELSE IF class = TemperatureSensor THEN "_temperature"
          ELSE IF class = VKPSensor THEN "_vkp_" \o zone_id
          ELSE "_version" )

\* An entity as its __init__ leaves it: the class, the key it was built for,
\* the topic it will subscribe to, its unique id and its name.
Entity(class, path, sensor_key, sensor_config) ==
    [ class |-> class,
      sensor_key |-> sensor_key,
      topic |-> sensor_config.topic,
      zone_id |-> sensor_config.zone_id,
      unique_id |-> UniqueId(class, path, sensor_config.zone_id),
      name |-> sensor_config.name ]

\* Variant: the binary sensor platform builds an entity for a zone input
\* whether it is enabled or not.
BinarySensorEntities_ignores_enabled(data) ==
    { Entity(ZoneSensor, data.module_path, k, data.sensors[k]) :
        k \in { key \in DOMAIN data.sensors :
                  data.sensors[key].sensor_type = SENSOR_TYPE_ZONE_INPUT } }

\* The entities list of binary_sensor.async_setup_entry.
BinarySensorEntities(data) ==
    { Entity(ZoneSensor, data.module_path, k, data.sensors[k]) :
        k \in { key \in DOMAIN data.sensors :
                  /\ data.sensors[key].enabled
                  /\ data.sensors[key].sensor_type = SENSOR_TYPE_ZONE_INPUT } }

\* The class sensor.async_setup_entry builds for a sensor type, "" for none.
SensorClass(sensor_type) ==
    IF sensor_type = SENSOR_TYPE_OUTPUT THEN OutputSensor
    ELSE IF sensor_type = SENSOR_TYPE_TEMPERATURE THEN TemperatureSensor
    ELSE IF sensor_type = SENSOR_TYPE_VKP_LINE THEN VKPSensor
    ELSE IF sensor_type = SENSOR_TYPE_VERSION THEN VersionSensor
    ELSE ""

\* The entities list of sensor.async_setup_entry.
SensorEntities(data) ==
    { Entity(SensorClass(data.sensors[k].sensor_type), data.module_path, k, data.sensors[k]) :
        k \in { key \in DOMAIN data.sensors :
                  /\ data.sensors[key].enabled
                  /\ SensorClass(data.sensors[key].sensor_type) # "" } }

\* async_setup_entry of the integration, up to the forwarding to the platforms.
SetupEntry ==
    /\ entry # <<>>
    /\ hass_data = <<>>
    /\ hass_data' = << [ module_path |-> entry[1].module_path,
                         sensors |-> entry[1].sensors,
                         enable_outputs |-> entry[1].enable_outputs ] >>
    /\ UNCHANGED << platforms, entities, flowVars, optVars, dcVars, zoneVars, sensorVars >>

\* async_setup_entry of the binary sensor platform.
BinarySensorSetup ==
    /\ hass_data # <<>>
    /\ "binary_sensor" \notin platforms
    /\ platforms' = platforms \cup {"binary_sensor"}
    /\ entities' = entities \cup BinarySensorEntities(hass_data[1])
    /\ UNCHANGED << hass_data, flowVars, optVars, dcVars, zoneVars, sensorVars >>

\* async_setup_entry of the sensor platform.
SensorSetup ==
    /\ hass_data # <<>>
    /\ "sensor" \notin platforms
    /\ platforms' = platforms \cup {"sensor"}
    /\ entities' = entities \cup SensorEntities(hass_data[1])
    /\ UNCHANGED << hass_data, flowVars, optVars, dcVars, zoneVars, sensorVars >>

\* The integration set up for each stored entry, the platforms in either order.
SetupNext ==
    \/ SetupEntry
    \/ BinarySensorSetup
    \/ SensorSetup

SpecSetup == StoredInit /\ [][SetupNext]_vars

\* The class of the decoder for a sensor type.
ClassOf(sensor_type) ==
    IF sensor_type = SENSOR_TYPE_ZONE_INPUT THEN ZoneSensor ELSE SensorClass(sensor_type)

\* The platform an entity class belongs to.
PlatformOf(class) == IF class = ZoneSensor THEN "binary_sensor" ELSE "sensor"

\* C26: once a platform has been set up, each enabled descriptor of the entry
\* whose kind belongs to the platform drives exactly one entity, of the class
\* of its kind, with the descriptor's topic as the topic it subscribes to; a
\* zone input is on the binary sensor platform and an output, temperature,
\* keypad line or version on the sensor platform; a disabled descriptor drives
\* no entity, and every entity is driven by a descriptor.
C26_OneDecoderPerEnabledDescriptor ==
    hass_data # <<>> =>
        LET sensors == entry[1].sensors
            built(k) == {e \in entities : e.sensor_key = k}
        IN  /\ \A k \in DOMAIN sensors :
                  IF sensors[k].enabled
                       /\ PlatformOf(ClassOf(sensors[k].sensor_type)) \in platforms
                  THEN /\ Cardinality(built(k)) = 1
                       /\ \A e \in built(k) :
                            /\ e.class = ClassOf(sensors[k].sensor_type)
                            /\ e.topic = sensors[k].topic
                            /\ e.topic = k
                  ELSE built(k) = {}
            /\ \A e \in entities :
                  /\ e.sensor_key \in DOMAIN sensors
                  /\ PlatformOf(e.class) \in platforms

\* Both platforms are set up for an entry with an enabled and a disabled zone
\* input: one zone entity exists, on the enabled one's topic.
C26_Witness ==
    /\ platforms = {"binary_sensor", "sensor"}
    /\ \E k1, k2 \in DOMAIN entry[1].sensors :
         /\ entry[1].sensors[k1].sensor_type = SENSOR_TYPE_ZONE_INPUT
         /\ entry[1].sensors[k2].sensor_type = SENSOR_TYPE_ZONE_INPUT
         /\ entry[1].sensors[k1].enabled
         /\ ~entry[1].sensors[k2].enabled
         /\ {e.topic : e \in entities} = {k1}

\* C27: within one module, two entities built for enabled descriptors with
\* different topics have different unique ids; so have a zone or output of the
\* prio branch and the zone or output of the same number of the vrio branch.
C27_UniqueIdsDiffer ==
    \A e1, e2 \in entities :
        e1.topic # e2.topic => e1.unique_id # e2.unique_id

\* ------------------------------------------------------------------------
\* Options flows on a stored entry
\* ------------------------------------------------------------------------

\* The host drops an options flow that is showing a form.
OptionsAbandon ==
    /\ o_pc \in {"form_init", "form_sensor_config"}
    /\ o_pc' = "abandoned"
    /\ UNCHANGED << o_sensor_keys, o_current_sensor_index, o_opened_with, flowVars, hass_data >>

\* Options flows, one after the other, on each stored entry, set up or not,
\* each flow carried to its end or dropped on the way.
OptionsNext ==
    \/ SetupEntry
    \/ OptionsOpen /\ OptionsOnly
    \/ OptionsInitSubmit /\ OptionsOnly
    \/ OptionsSensorConfig /\ OptionsOnly
    \/ OptionsAbandon /\ OptionsOnly

SpecOptions == StoredInit /\ [][OptionsNext]_vars

\* C28: an options flow changes the stored configuration only in the step
\* that commits, after its last per-sensor step: the data of the entry, and the
\* descriptors of the running per-entry state, change in no other step, and
\* when a flow has been abandoned both are what they were when it was opened.
C28_StoredOnlyOnCommit ==
    /\ [][ (entry' # entry \/ (hass_data # <<>> /\ hass_data' # hass_data)) =>
              (o_pc = "form_sensor_config" /\ o_pc' = "done") ]_vars
    /\ [](o_pc = "abandoned" =>
            /\ entry = o_opened_with
            /\ hass_data # <<>> => hass_data[1].sensors = o_opened_with[1].sensors)

\* ------------------------------------------------------------------------
\* The per-sensor step invoked once more
\* ------------------------------------------------------------------------

\* The host finishes a flow whose step returned async_create_entry by adding
\* and setting up the entry, and takes the flow out of its table after that.
\* Until then the flow's current step is still the sensor_config form last
\* shown, and a submission that arrives for it (the form sent twice) invokes
\* async_step_sensor_config(user_input) again, with the cursor at the end:
\* self._sensor_keys[self._current_sensor_index] raises IndexError.
SensorConfigResubmitted ==
    /\ pc = "create_entry"
    /\ current_sensor_index >= 1
    /\ current_sensor_index + 1 > Len(sensor_keys)
    /\ pc' = "index_error"
    /\ UNCHANGED << module_path, discovered_modules, discovered_sensors,
                    current_sensor_index, sensor_keys, enable_outputs, errors, entry,
                    unsubscribes, pattern_idx, subs, published, delivered, redelivered, nfail,
                    elapsed, runs, presented >>

ResubmitTopics ==
    { "selfmon/vmod.a1/prio/inputs/read/7",
      "selfmon/vmod.a1/vrio/inputs/read/12",
      "selfmon/vmod.a1/temperature" }

\* Sensor discovery and the per-sensor steps of both flows, each form
\* submitted once or, for the last form of the config flow, twice.
ResubmitNext ==
    \/ OutputConfig /\ FlowOnly
    \/ DiscoverSubscribe /\ FlowOnly
    \/ WindowElapses /\ FlowOnly
    \/ DiscoverTimer /\ FlowOnly
    \/ SensorConfig /\ FlowOnly
    \/ SensorConfigResubmitted /\ FlowOnly
    \/ Publish(ResubmitTopics) /\ FlowOnly
    \/ OptionsOpen /\ OptionsOnly
    \/ OptionsInitSubmit /\ OptionsOnly
    \/ OptionsSensorConfig /\ OptionsOnly

SpecResubmit == DiscoverInit /\ [][ResubmitNext]_vars

\* C29: in both flows the cursor is within the key list whenever a per-sensor
\* step reads the current key, with or without input, whatever invocations
\* the host makes: no step ends in IndexError, a per-sensor form is shown only
\* for a cursor below the number of keys, each submitted step moves the cursor
\* up by one, and the flow finishes exactly when the cursor reaches the number
\* of keys.
C29_CursorInRange ==
    /\ [](pc # "index_error" /\ o_pc # "index_error")
    /\ [](pc = "form_sensor_config" =>
            0 <= current_sensor_index /\ current_sensor_index < Len(sensor_keys))
    /\ [](o_pc = "form_sensor_config" =>
            0 <= o_current_sensor_index /\ o_current_sensor_index < Len(o_sensor_keys))
    /\ [][ /\ (pc = "form_sensor_config" /\ pc' \in {"form_sensor_config", "create_entry"}) =>
                /\ current_sensor_index' = current_sensor_index + 1
                /\ pc' = "create_entry" <=> current_sensor_index' = Len(sensor_keys)
           /\ (o_pc = "form_sensor_config" /\ o_pc' \in {"form_sensor_config", "done"}) =>
                /\ o_current_sensor_index' = o_current_sensor_index + 1
                /\ o_pc' = "done" <=> o_current_sensor_index' = Len(o_sensor_keys) ]_vars

=============================================================================
